---------------------------- MODULE Spec2Model ----------------------------
(***************************************************************************)
(* nodepp/graphql.h: the GraphQL query parser (detail::GraphQLParser) and  *)
(* the execution engine (Schema::execute, Schema::filterFields).           *)
(*                                                                         *)
(* Text is a sequence of one-character strings; pos_ is the 0-based byte   *)
(* offset of the cursor, as in the source.  A std::string built by         *)
(* concatenation (an error message) is the sequence of its pieces.         *)
(* A nlohmann::json value is a record tagged by its kind; an object is a   *)
(* function from its keys, which is what std::map equality compares.       *)
(***************************************************************************)
EXTENDS Integers, Sequences, FiniteSets, TLC

(***************************************************************************)
(* Bounds of the model.                                                    *)
(***************************************************************************)
\* the largest number of top-level fields of a generated query text
MaxFields == 2
\* the largest number of trailing characters cut off a generated query text
MaxCut == 1
\* the number of threads that call execute() concurrently
MaxThreads == 2

(***************************************************************************)
(* nlohmann::json values                                                   *)
(***************************************************************************)
Null == [t |-> "null"]
Bool(b) == [t |-> "bool", b |-> b]
Int32(n) == [t |-> "int", n |-> n]
Float(m, e) == [t |-> "float", m |-> m, e |-> e]
Str(s) == [t |-> "string", s |-> s]
Arr(a) == [t |-> "array", a |-> a]
Obj(f) == [t |-> "object", f |-> f]

NoKeys == [k \in {} |-> Null]
EmptyObject == Obj(NoKeys)
EmptyArray == Arr(<<>>)

is_object(j) == j.t = "object"
is_array(j) == j.t = "array"

\* json::contains(key): true only of an object that has the key
contains(j, key) == is_object(j) /\ key \in DOMAIN j.f

\* json::operator[](key) = val on an object: insert or overwrite
Put(j, key, val) ==
    Obj([k \in DOMAIN j.f \cup {key} |-> IF k = key THEN val ELSE j.f[k]])

\* push_back that puts the value at the front of the array
push_front(j, val) == Arr(<<val>> \o j.a)

\* json::push_back on an array
push_back(j, val) == Arr(Append(j.a, val))

(***************************************************************************)
(* Characters                                                              *)
(***************************************************************************)
NUL == "NUL"    \* what peek() and advance() return at the end of the text
Lower == {"a","b","c","d","e","f","g","h","i","j","k","l","m",
          "n","o","p","q","r","s","t","u","v","w","x","y","z"}
Upper == {"A","B","C","D","E","F","G","H","I","J","K","L","M",
          "N","O","P","Q","R","S","T","U","V","W","X","Y","Z"}
Digits == {"0","1","2","3","4","5","6","7","8","9"}
DigitVal(c) ==
    CASE c = "0" -> 0 [] c = "1" -> 1 [] c = "2" -> 2 [] c = "3" -> 3
      [] c = "4" -> 4 [] c = "5" -> 5 [] c = "6" -> 6 [] c = "7" -> 7
      [] c = "8" -> 8 [] c = "9" -> 9

INT_MAX == 2147483647     \* the largest int, beyond which std::stoi throws

(***************************************************************************)
(* detail::GraphQLParser.  Every parse function takes the text and the     *)
(* cursor and yields either Ok(the new cursor, the value) or Throw(what()).*)
(***************************************************************************)
Ok(p, v) == [ok |-> TRUE, pos |-> p, val |-> v]
Throw(what) == [ok |-> FALSE, what |-> what]

peek(src, p) == IF p < Len(src) THEN src[p + 1] ELSE NUL

\* the cursor after advance(); the character it returns is peek(src, p)
advance(src, p) == IF p < Len(src) THEN p + 1 ELSE p

IsSpace_commaIsToken(c) == c \in {" ", "\t", "\n", "\r"}

IsSpace(c) == c \in {" ", "\t", "\n", "\r", ","}

RECURSIVE skipWhitespace(_, _)
skipWhitespace(src, p) ==
    IF p < Len(src) /\ IsSpace(src[p + 1])
    THEN skipWhitespace(src, p + 1)
    ELSE p

\* what follows a call that may throw: the exception propagates, or the
\* rest of the function runs on what the call returned
Then(r, Rest(_)) == IF r.ok THEN Rest(r) ELSE r

expectAt_staysPut(q, r, c, found) ==
    IF found # c
    THEN Throw(<<"Expected '", c, "' at position ", ToString(r)>>)
    ELSE Ok(q, c)

expectAt(q, r, c, found) ==
    IF found # c
    THEN Throw(<<"Expected '", c, "' at position ", ToString(r)>>)
    ELSE Ok(r, c)

expectSkipped(src, q, c) == expectAt(q, advance(src, q), c, peek(src, q))

expect(src, p, c) == expectSkipped(src, skipWhitespace(src, p), c)

RECURSIVE skipBalancedLoop(_, _, _, _, _)
skipBalancedLoop(src, p, depth, open, close) ==
    IF depth > 0 /\ p < Len(src)
    THEN skipBalancedLoop(src, p + 1,
                          depth + (IF src[p + 1] = open THEN 1 ELSE 0)
                                - (IF src[p + 1] = close THEN 1 ELSE 0),
                          open, close)
    ELSE p

skipBalanced(src, p, open, close) ==
    Then(expect(src, p, open), LAMBDA e :
         Ok(skipBalancedLoop(src, e.pos, 1, open, close), open))

isIdentChar(c) == c \in Lower \cup Upper \cup Digits \cup {"_"}

RECURSIVE identEnd(_, _)
identEnd(src, p) ==
    IF p < Len(src) /\ isIdentChar(src[p + 1])
    THEN identEnd(src, p + 1)
    ELSE p

identifierAt(src, q, r) ==
    IF r = q
    THEN Throw(<<"Expected identifier at position ", ToString(q)>>)
    ELSE Ok(r, SubSeq(src, q + 1, r))

identifierSkipped(src, q) == identifierAt(src, q, identEnd(src, q))

parseIdentifier(src, p) == identifierSkipped(src, skipWhitespace(src, p))

(***************************************************************************)
(* Numbers.  std::stoi and std::stod throw std::invalid_argument when no   *)
(* digit can be converted and std::stoi throws std::out_of_range beyond    *)
(* int; what() of both is the function's name.  A double is kept as        *)
(* m / 10^e with no trailing zero in the fraction.                         *)
(***************************************************************************)
RECURSIVE digitsEnd(_, _)
digitsEnd(src, p) ==
    IF p < Len(src) /\ src[p + 1] \in Digits
    THEN digitsEnd(src, p + 1)
    ELSE p

RECURSIVE DigitsToNat(_)
DigitsToNat(ds) ==
    IF ds = <<>> THEN 0
    ELSE 10 * DigitsToNat(SubSeq(ds, 1, Len(ds) - 1)) + DigitVal(ds[Len(ds)])

RECURSIVE StripZeros(_)
StripZeros(ds) ==
    IF ds # <<>> /\ ds[Len(ds)] = "0"
    THEN StripZeros(SubSeq(ds, 1, Len(ds) - 1))
    ELSE ds

RECURSIVE Pow10(_)
Pow10(n) == IF n = 0 THEN 1 ELSE 10 * Pow10(n - 1)

RECURSIVE StripLeadingZeros(_)
StripLeadingZeros(ds) ==
    IF Len(ds) > 1 /\ ds[1] = "0" THEN StripLeadingZeros(Tail(ds)) ELSE ds

\* whether the digits denote an int: at most INT_MAX, or INT_MAX + 1 negated
FitsSignificant(neg, sig) ==
    \/ Len(sig) < 10
    \/ /\ Len(sig) = 10
       /\ \/ DigitsToNat(SubSeq(sig, 1, 9)) < INT_MAX \div 10
          \/ /\ DigitsToNat(SubSeq(sig, 1, 9)) = INT_MAX \div 10
             /\ DigitVal(sig[10]) <= (INT_MAX % 10) + (IF neg THEN 1 ELSE 0)

IntOf(neg, hi, lo) == Int32(IF neg THEN (-10 * hi) - lo ELSE 10 * hi + lo)

stoiSignificant(neg, sig) ==
    IF ~FitsSignificant(neg, sig)
    THEN Throw(<<"stoi">>)
    ELSE Ok(0, IntOf(neg, DigitsToNat(SubSeq(sig, 1, Len(sig) - 1)),
                     DigitVal(sig[Len(sig)])))

stoi(neg, ds) ==
    IF ds = <<>> THEN Throw(<<"stoi">>)
    ELSE stoiSignificant(neg, StripLeadingZeros(ds))

FloatOf(neg, m, e) == Float(IF neg THEN -m ELSE m, e)

stodStripped(neg, ds, f) ==
    FloatOf(neg, DigitsToNat(ds) * Pow10(Len(f)) + DigitsToNat(f), Len(f))

stod(neg, ds, fs) ==
    IF ds = <<>> /\ fs = <<>> THEN Throw(<<"stod">>)
    ELSE Ok(0, stodStripped(neg, ds, StripZeros(fs)))

\* the text from p1 (after the sign) to p2 is the digits before the '.'
numberFraction(src, neg, p1, p2, p4) ==
    Then(stod(neg, SubSeq(src, p1 + 1, p2), SubSeq(src, p2 + 2, p4)),
         LAMBDA conv : Ok(p4, conv.val))

numberDigits(src, neg, p1, p2) ==
    IF peek(src, p2) = "."
    THEN numberFraction(src, neg, p1, p2, digitsEnd(src, advance(src, p2)))
    ELSE Then(stoi(neg, SubSeq(src, p1 + 1, p2)), LAMBDA conv : Ok(p2, conv.val))

numberSigned(src, neg, p1) == numberDigits(src, neg, p1, digitsEnd(src, p1))

numberSkipped(src, p0) ==
    IF peek(src, p0) = "-"
    THEN numberSigned(src, TRUE, advance(src, p0))
    ELSE numberSigned(src, FALSE, p0)

parseNumber(src, p) == numberSkipped(src, skipWhitespace(src, p))

(***************************************************************************)
(* Strings                                                                 *)
(***************************************************************************)
Unescape(esc) ==
    CASE esc = "n" -> "\n"
      [] esc = "t" -> "\t"
      [] OTHER -> esc      \* '"', '\\' and every other character: itself

\* the while loop of parseString: the cursor and the text read when it ends
RECURSIVE parseStringLoop(_, _, _)
parseStringLoop(src, p, result) ==
    IF peek(src, p) # "\"" /\ peek(src, p) # NUL
    THEN IF peek(src, p) = "\\"
         THEN parseStringLoop(src, advance(src, advance(src, p)),
                              Append(result, Unescape(peek(src, advance(src, p)))))
         ELSE parseStringLoop(src, advance(src, p), Append(result, peek(src, p)))
    ELSE Ok(p, result)

parseString(src, p) ==
    Then(expect(src, p, "\""), LAMBDA open :
    Then(parseStringLoop(src, open.pos, <<>>), LAMBDA body :
    Then(expect(src, body.pos, "\""), LAMBDA close :
         Ok(close.pos, body.val))))

parseBool(src, p) ==
    Then(parseIdentifier(src, p), LAMBDA word :
         Ok(word.pos, Bool(word.val = <<"t", "r", "u", "e">>)))

parseNull(src, p) ==
    Then(parseIdentifier(src, p), LAMBDA word : Ok(word.pos, Null))

(***************************************************************************)
(* Values, arguments                                                        *)
(***************************************************************************)
RECURSIVE parseValue(_, _)
RECURSIVE parseMembers(_, _, _, _)
RECURSIVE parseElements(_, _, _)

\* the loop shared by parseObjectValue and parseArguments:
\*   while (peek() != close) { key = parseIdentifier(); expect(':');
\*                             obj[key] = parseValue(); skipWhitespace(); }
parseMembers(src, p, obj, close) ==
    IF peek(src, p) # close
    THEN Then(parseIdentifier(src, p), LAMBDA key :
         Then(expect(src, key.pos, ":"), LAMBDA colon :
         Then(parseValue(src, colon.pos), LAMBDA v :
              parseMembers(src, skipWhitespace(src, v.pos),
                           Put(obj, key.val, v.val), close))))
    ELSE Ok(p, obj)

\* the loop of parseArrayValue
parseElements(src, p, arr) ==
    IF peek(src, p) # "]"
    THEN Then(parseValue(src, p), LAMBDA v :
              parseElements(src, skipWhitespace(src, v.pos),
                            push_back(arr, v.val)))
    ELSE Ok(p, arr)

\* open, the members up to close, close: parseObjectValue and parseArguments
parseEnclosed(src, p, open, close) ==
    Then(expect(src, p, open), LAMBDA o :
    Then(parseMembers(src, skipWhitespace(src, o.pos), EmptyObject, close),
         LAMBDA body :
    Then(expect(src, body.pos, close), LAMBDA c :
         Ok(c.pos, body.val))))

parseObjectValue(src, p) == parseEnclosed(src, p, "{", "}")

parseArrayValue(src, p) ==
    Then(expect(src, p, "["), LAMBDA open :
    Then(parseElements(src, skipWhitespace(src, open.pos), EmptyArray),
         LAMBDA body :
    Then(expect(src, body.pos, "]"), LAMBDA close :
         Ok(close.pos, body.val))))

\* valueAt with a '$' and the name after it read as a value
valueAt_variable(src, q, c) ==
    IF c = "\"" THEN Then(parseString(src, q), LAMBDA s : Ok(s.pos, Str(s.val)))
    ELSE IF c = "-" \/ c \in Digits THEN parseNumber(src, q)
    ELSE IF c = "t" \/ c = "f" THEN parseBool(src, q)
    ELSE IF c = "n" THEN parseNull(src, q)
    ELSE IF c = "{" THEN parseObjectValue(src, q)
    ELSE IF c = "[" THEN parseArrayValue(src, q)
    ELSE IF c = "$"
    THEN Then(parseIdentifier(src, advance(src, q)), LAMBDA ident :
              Ok(ident.pos, Str(<<"$">> \o ident.val)))
    ELSE Then(parseIdentifier(src, q), LAMBDA ident :
              Ok(ident.pos, Str(ident.val)))

valueAt(src, q, c) ==
    IF c = "\"" THEN Then(parseString(src, q), LAMBDA s : Ok(s.pos, Str(s.val)))
    ELSE IF c = "-" \/ c \in Digits THEN parseNumber(src, q)
    ELSE IF c = "t" \/ c = "f" THEN parseBool(src, q)
    ELSE IF c = "n" THEN parseNull(src, q)
    ELSE IF c = "{" THEN parseObjectValue(src, q)
    ELSE IF c = "[" THEN parseArrayValue(src, q)
    ELSE Then(parseIdentifier(src, q), LAMBDA ident :
              Ok(ident.pos, Str(ident.val)))

valueSkipped(src, q) == valueAt(src, q, peek(src, q))

parseValue(src, p) == valueSkipped(src, skipWhitespace(src, p))

parseArguments(src, p) == parseEnclosed(src, p, "(", ")")

(***************************************************************************)
(* Fields, selection sets, the document                                    *)
(***************************************************************************)
FieldSelection(name, alias, arguments, selections) ==
    [name |-> name, alias |-> alias, arguments |-> arguments,
     selections |-> selections]

ParsedQuery(operationType, operationName, selections) ==
    [operationType |-> operationType, operationName |-> operationName,
     selections |-> selections]

RECURSIVE parseField(_, _)
RECURSIVE parseSelectionSet(_, _)
RECURSIVE parseFields(_, _, _)

\* the while loop of parseSelectionSet
parseFields(src, p, selections) ==
    IF peek(src, p) # "}" /\ peek(src, p) # NUL
    THEN Then(parseField(src, p), LAMBDA f :
              parseFields(src, skipWhitespace(src, f.pos),
                          Append(selections, f.val)))
    ELSE Ok(p, selections)

parseSelectionSet(src, p) ==
    Then(expect(src, p, "{"), LAMBDA open :
    Then(parseFields(src, skipWhitespace(src, open.pos), <<>>), LAMBDA body :
    Then(expect(src, body.pos, "}"), LAMBDA close :
         Ok(close.pos, body.val))))

\* parseField from "Parse nested selection set" on; p3 is past the whitespace
fieldSelections(src, p3, name, alias, arguments) ==
    IF peek(src, p3) = "{"
    THEN Then(parseSelectionSet(src, p3), LAMBDA sels :
              Ok(sels.pos, FieldSelection(name, alias, arguments, sels.val)))
    ELSE Ok(p3, FieldSelection(name, alias, arguments, <<>>))

\* parseField from "Parse arguments" on
fieldArguments(src, p2, name, alias) ==
    IF peek(src, p2) = "("
    THEN Then(parseArguments(src, p2), LAMBDA args :
              fieldSelections(src, skipWhitespace(src, args.pos), name, alias,
                              args.val))
    ELSE fieldSelections(src, skipWhitespace(src, p2), name, alias, EmptyObject)

\* parseField from "Check for alias" on; p1 is past the whitespace
fieldAlias(src, p1, nameOrAlias) ==
    IF peek(src, p1) = ":"
    THEN Then(parseIdentifier(src, advance(src, p1)), LAMBDA name :
              fieldArguments(src, skipWhitespace(src, name.pos), name.val,
                             nameOrAlias))
    ELSE fieldArguments(src, p1, nameOrAlias, <<>>)

parseField(src, p) ==
    Then(parseIdentifier(src, p), LAMBDA nameOrAlias :
         fieldAlias(src, skipWhitespace(src, nameOrAlias.pos), nameOrAlias.val))

\* parse() from "Skip variable definitions" on
operationVariables(src, p2, operationType, operationName) ==
    IF peek(src, p2) = "("
    THEN Then(skipBalanced(src, p2, "(", ")"), LAMBDA defs :
              Ok(skipWhitespace(src, defs.pos),
                 ParsedQuery(operationType, operationName, <<>>)))
    ELSE Ok(p2, ParsedQuery(operationType, operationName, <<>>))

\* parse() from "Optional operation name" on; p1 is past the whitespace
operationName(src, p1, operationType) ==
    IF peek(src, p1) # "{" /\ peek(src, p1) # "("
    THEN Then(parseIdentifier(src, p1), LAMBDA name :
              operationVariables(src, skipWhitespace(src, name.pos),
                                 operationType, name.val))
    ELSE operationVariables(src, p1, operationType, <<>>)

\* parse(): the operation keyword, the optional name, the variable definitions
parseOperation(src, p) ==
    Then(parseIdentifier(src, p), LAMBDA keyword :
         IF keyword.val = <<"q","u","e","r","y">>
         THEN operationName(src, skipWhitespace(src, keyword.pos), "query")
         ELSE IF keyword.val = <<"m","u","t","a","t","i","o","n">>
         THEN operationName(src, skipWhitespace(src, keyword.pos), "mutation")
         ELSE Throw(<<"Expected 'query' or 'mutation', got '">>
                    \o keyword.val \o <<"'">>))

\* parseSkipped with the end of the text required after the selection set
parseSkipped_toEnd(src, p0) ==
    Then(IF peek(src, p0) = "{" THEN Ok(p0, ParsedQuery("query", <<>>, <<>>))
         ELSE parseOperation(src, p0), LAMBDA op :
    Then(parseSelectionSet(src, op.pos), LAMBDA sels :
         IF peek(src, skipWhitespace(src, sels.pos)) # NUL
         THEN Throw(<<"Unexpected text at position ",
                      ToString(skipWhitespace(src, sels.pos))>>)
         ELSE Ok(sels.pos, ParsedQuery(op.val.operationType,
                                       op.val.operationName, sels.val))))

parseSkipped(src, p0) ==
    Then(IF peek(src, p0) = "{" THEN Ok(p0, ParsedQuery("query", <<>>, <<>>))
         ELSE parseOperation(src, p0), LAMBDA op :
    Then(parseSelectionSet(src, op.pos), LAMBDA sels :
         Ok(sels.pos, ParsedQuery(op.val.operationType, op.val.operationName,
                                  sels.val))))

\* GraphQLParser(source).parse()
parse(src) == parseSkipped(src, skipWhitespace(src, 0))

(***************************************************************************)
(* Words of the query texts, of the resolvers' results and of the envelope *)
(***************************************************************************)
w_user == <<"u","s","e","r">>
w_echo == <<"e","c","h","o">>
w_setName == <<"s","e","t","N","a","m","e">>
w_id == <<"i","d">>
w_name == <<"n","a","m","e">>
w_email == <<"e","m","a","i","l">>
w_address == <<"a","d","d","r","e","s","s">>
w_city == <<"c","i","t","y">>
w_zip == <<"z","i","p">>
w_tags == <<"t","a","g","s">>
w_age == <<"a","g","e">>
w_v == <<"v">>
w_role == <<"r","o","l","e">>
w_data == <<"d","a","t","a">>
w_errors == <<"e","r","r","o","r","s">>
w_message == <<"m","e","s","s","a","g","e">>
w_locations == <<"l","o","c","a","t","i","o","n","s">>
w_path == <<"p","a","t","h">>

(***************************************************************************)
(* Resolvers: std::function<JsonValue(JsonValue args, JsonValue context)>. *)
(* A call either returns a value or throws a std::exception with what().   *)
(***************************************************************************)
Returns(v) == [ok |-> TRUE, val |-> v]
Throws(what) == [ok |-> FALSE, what |-> what]

\* JsonValue::operator[](key): the member, or null when there is none
Member(j, key) == IF contains(j, key) THEN j.f[key] ELSE Null

\* The `user` resolver of the example server and of the tests:
\*   int id = args["id"];  the user with that id, or throw "User not found".
\* json::get<int>() throws type_error 302 on anything that is no number or bool.
UserIds == {1, 2}
UserOf(id) ==
    Obj(w_id :> Int32(id)
        @@ w_name :> Str(<<"U","s","e","r", ToString(id)>>)
        @@ w_email :> Str(<<"u", ToString(id), "@", "x">>)
        @@ w_address :> Obj(w_city :> Str(<<"C", ToString(id)>>)
                            @@ w_zip :> Int32(100 + id))
        @@ w_tags :> Arr(<<Obj(w_name :> Str(<<"t", ToString(id)>>)
                               @@ w_id :> Int32(10 + id)),
                           Int32(7)>>))

userResolver(args, context) ==
    LET a == Member(args, w_id)
    IN  IF a.t \notin {"int", "float", "bool"}
        THEN Throws(<<"[json.exception.type_error.302] type must be number, but is ",
                      a.t>>)
        ELSE LET id == CASE a.t = "int" -> a.n
                         [] a.t = "bool" -> IF a.b THEN 1 ELSE 0
                         [] a.t = "float" ->
                              IF a.m >= 0 THEN a.m \div Pow10(a.e)
                              ELSE -((-a.m) \div Pow10(a.e))
             IN  IF id \in UserIds THEN Returns(UserOf(id))
                 ELSE Throws(<<"User not found with id ", ToString(id)>>)

\* a resolver that returns its argument v, whatever kind of value it is
echoResolver(args, context) == Returns(Member(args, w_v))

\* a mutation resolver that returns the new name it was given
setNameResolver(args, context) == Returns(Member(args, w_name))

Invoke(resolver, args, context) ==
    CASE resolver = "user" -> userResolver(args, context)
      [] resolver = "echo" -> echoResolver(args, context)
      [] resolver = "setName" -> setNameResolver(args, context)

(***************************************************************************)
(* Schema::filterFields: the target after the selections are applied       *)
(***************************************************************************)
outputKey(sel) == IF sel.alias = <<>> THEN sel.name ELSE sel.alias

\* filterFields with a requested name the source lacks set to null
RECURSIVE filterFields_nullsMissing(_, _, _)
filterFields_nullsMissing(source, selections, target) ==
    IF selections = <<>> THEN target
    ELSE
    LET sel == Head(selections)
        key == IF sel.alias = <<>> THEN sel.name ELSE sel.alias
        next ==
          IF contains(source, sel.name)
          THEN LET item == source.f[sel.name]
               IN  IF sel.selections # <<>> /\ is_object(item)
                   THEN Put(target, key,
                            filterFields_nullsMissing(item, sel.selections,
                                                      EmptyObject))
                   ELSE IF sel.selections # <<>> /\ is_array(item)
                   THEN Put(target, key,
                            Arr([i \in 1..Len(item.a) |->
                                   IF is_object(item.a[i])
                                   THEN filterFields_nullsMissing(
                                            item.a[i], sel.selections, EmptyObject)
                                   ELSE item.a[i]]))
                   ELSE Put(target, key, item)
          ELSE Put(target, key, Null)
    IN  filterFields_nullsMissing(source, Tail(selections), next)

\* filterFields with the elements of an array that are not objects left out
RECURSIVE filterFields_dropsScalars(_, _, _)
filterFields_dropsScalars(source, selections, target) ==
    IF selections = <<>> THEN target
    ELSE
    LET sel == Head(selections)
        key == outputKey(sel)
        next ==
          IF contains(source, sel.name)
          THEN LET item == source.f[sel.name]
               IN  IF sel.selections # <<>> /\ is_object(item)
                   THEN Put(target, key,
                            filterFields_dropsScalars(item, sel.selections,
                                                      EmptyObject))
                   ELSE IF sel.selections # <<>> /\ is_array(item)
                   THEN LET objects == SelectSeq(item.a, is_object)
                        IN  Put(target, key,
                                Arr([i \in 1..Len(objects) |->
                                       filterFields_dropsScalars(
                                           objects[i], sel.selections,
                                           EmptyObject)]))
                   ELSE Put(target, key, item)
          ELSE target
    IN  filterFields_dropsScalars(source, Tail(selections), next)

RECURSIVE filterFields(_, _, _)
filterFields(source, selections, target) ==
    IF selections = <<>> THEN target
    ELSE
    LET sel == Head(selections)
        key == outputKey(sel)
        next ==
          IF contains(source, sel.name)
          THEN LET item == source.f[sel.name]
               IN  IF sel.selections # <<>> /\ is_object(item)
                   THEN Put(target, key,
                            filterFields(item, sel.selections, EmptyObject))
                   ELSE IF sel.selections # <<>> /\ is_array(item)
                   THEN Put(target, key,
                            Arr([i \in 1..Len(item.a) |->
                                   IF is_object(item.a[i])
                                   THEN filterFields(item.a[i], sel.selections,
                                                     EmptyObject)
                                   ELSE item.a[i]]))
                   ELSE Put(target, key, item)
          ELSE target
    IN  filterFields(source, Tail(selections), next)

\* filterFieldsSource with a leaf moved out of the source, not copied
RECURSIVE filterFieldsSource_movesLeaf(_, _)
filterFieldsSource_movesLeaf(source, selections) ==
    IF selections = <<>> THEN source
    ELSE
    LET sel == Head(selections)
        next ==
          IF contains(source, sel.name)
          THEN LET item == source.f[sel.name]
               IN  IF sel.selections # <<>> /\ is_object(item)
                   THEN Put(source, sel.name,
                            filterFieldsSource_movesLeaf(item, sel.selections))
                   ELSE IF sel.selections # <<>> /\ is_array(item)
                   THEN Put(source, sel.name,
                            Arr([i \in 1..Len(item.a) |->
                                   IF is_object(item.a[i])
                                   THEN filterFieldsSource_movesLeaf(
                                            item.a[i], sel.selections)
                                   ELSE item.a[i]]))
                   ELSE Put(source, sel.name, Null)
          ELSE source
    IN  filterFieldsSource_movesLeaf(next, Tail(selections))

\* The value of filterFields' first parameter, `const nlohmann::json& source`,
\* when the call returns.  The function reads it with contains(), the const
\* operator[] and a const iteration; a nested call receives source[sel.name]
\* or an array item as its own source, so the member afterwards is whatever
\* the nested call left there; target[key] = source[sel.name] is a copy.
RECURSIVE filterFieldsSource(_, _)
filterFieldsSource(source, selections) ==
    IF selections = <<>> THEN source
    ELSE
    LET sel == Head(selections)
        next ==
          IF contains(source, sel.name)
          THEN LET item == source.f[sel.name]
               IN  IF sel.selections # <<>> /\ is_object(item)
                   THEN Put(source, sel.name,
                            filterFieldsSource(item, sel.selections))
                   ELSE IF sel.selections # <<>> /\ is_array(item)
                   THEN Put(source, sel.name,
                            Arr([i \in 1..Len(item.a) |->
                                   IF is_object(item.a[i])
                                   THEN filterFieldsSource(item.a[i],
                                                           sel.selections)
                                   ELSE item.a[i]]))
                   ELSE source
          ELSE source
    IN  filterFieldsSource(next, Tail(selections))

(***************************************************************************)
(* Schema::execute                                                         *)
(***************************************************************************)
\* mergeVariables with a variable also replacing a literal argument that is null
RECURSIVE mergeVariables_overNull(_, _, _)
mergeVariables_overNull(args, variables, keys) ==
    IF keys = {} THEN args
    ELSE LET key == CHOOSE k \in keys : TRUE
         IN  mergeVariables_overNull(
                 IF ~contains(args, key) \/ args.f[key] = Null
                 THEN Put(args, key, variables.f[key]) ELSE args,
                 variables, keys \ {key})

\* args = field.arguments; every variable whose key args lacks is added
RECURSIVE mergeVariables(_, _, _)
mergeVariables(args, variables, keys) ==
    IF keys = {} THEN args
    ELSE LET key == CHOOSE k \in keys : TRUE
         IN  mergeVariables(IF ~contains(args, key)
                            THEN Put(args, key, variables.f[key]) ELSE args,
                            variables, keys \ {key})

\* mergedArguments with the arguments of the first nested selection merged in
mergedArguments_withNested(field, variables) ==
    mergeVariables(IF field.selections # <<>>
                   THEN mergeVariables(field.arguments,
                                       field.selections[1].arguments,
                                       DOMAIN field.selections[1].arguments.f)
                   ELSE field.arguments,
                   variables, DOMAIN variables.f)

mergedArguments(field, variables) ==
    mergeVariables(field.arguments, variables, DOMAIN variables.f)

unknownFieldError(field, operationType) ==
    Obj(w_message :> Str(<<"Cannot query field '">> \o field.name
                         \o <<"' on type '", operationType, "'">>)
        @@ w_locations :> EmptyArray
        @@ w_path :> Arr(<<Str(field.name)>>))

resolverError(field, what) ==
    Obj(w_message :> Str(what) @@ w_path :> Arr(<<Str(field.name)>>))

\* projected with the objects of a top-level array filtered too
projected_filtersArrays(field, resultJson) ==
    IF field.selections # <<>> /\ is_object(resultJson)
    THEN filterFields(resultJson, field.selections, EmptyObject)
    ELSE IF field.selections # <<>> /\ is_array(resultJson)
    THEN Arr([i \in 1..Len(resultJson.a) |->
                IF is_object(resultJson.a[i])
                THEN filterFields(resultJson.a[i], field.selections, EmptyObject)
                ELSE resultJson.a[i]])
    ELSE resultJson

\* projected without the test that the field has a selection set
projected_filtersLeaf(field, resultJson) ==
    IF is_object(resultJson)
    THEN filterFields(resultJson, field.selections, EmptyObject)
    ELSE resultJson

\* the projection of a resolver's result under the field's selection set
projected(field, resultJson) ==
    IF field.selections # <<>> /\ is_object(resultJson)
    THEN filterFields(resultJson, field.selections, EmptyObject)
    ELSE resultJson

\* the key of data that the catch block of a failed resolver sets to null
failureKey(field) == field.name

\* makeResponse with the errors key always set
makeResponse_alwaysErrors(data, errors) ==
    Obj(w_data :> data @@ w_errors :> errors)

\* makeResponse with data null when no field produced an entry
makeResponse_nullWhenEmpty(data, errors) ==
    IF errors.a # <<>>
    THEN Obj(w_data :> (IF data = EmptyObject THEN Null ELSE data)
             @@ w_errors :> errors)
    ELSE Obj(w_data :> data)

makeResponse(data, errors) ==
    IF errors.a # <<>>
    THEN Obj(w_data :> data @@ w_errors :> errors)
    ELSE Obj(w_data :> data)

\* parseErrorResponse with the bare what() as the message
parseErrorResponse_noPrefix(what) ==
    Obj(w_data :> Null @@ w_errors :> Arr(<<Obj(w_message :> Str(what))>>))

parseErrorResponse(what) ==
    Obj(w_data :> Null
        @@ w_errors :> Arr(<<Obj(w_message :> Str(<<"Parse error: ">> \o what))>>))

(***************************************************************************)
(* The inputs: query texts, variables, contexts, registrations             *)
(***************************************************************************)
Sp == <<" ">>

\* top-level fields as they are written in a query text
FieldText ==
    [ \* echo
      echo |-> w_echo,
      \* user
      user |-> w_user,
      \* user: user(id: 1)
      userById |->
        w_user \o <<":", " ">> \o w_user \o <<"(">> \o w_id
           \o <<":", " ", "1", ")">>,
      \* a: user { name }
      aUser |->
        <<"a", ":", " ">> \o w_user \o <<" ", "{", " ">> \o w_name \o <<" ", "}">>,
      \* b:user(id:2){n:name address{city,age}tags{name} age}
      bUser |->
        <<"b", ":">> \o w_user \o <<"(">> \o w_id \o <<":", "2", ")", "{">>
           \o <<"n", ":">> \o w_name \o Sp
           \o w_address \o <<"{">> \o w_city \o <<",">> \o w_age \o <<"}">>
           \o w_tags \o <<"{">> \o w_name \o <<"}">> \o Sp \o w_age \o <<"}">>,
      \* user:echo(v:[1 {name:"w"}]){name}
      userEcho |->
        w_user \o <<":">> \o w_echo \o <<"(">> \o w_v
           \o <<":", "[", "1", " ", "{">>
           \o w_name \o <<":", "\"", "w", "\"", "}", "]", ")", "{">>
           \o w_name \o <<"}">>,
      \* setName(name: "Bob" v: null)
      setName |->
        w_setName \o <<"(">> \o w_name
           \o <<":", " ", "\"", "B", "o", "b", "\"", " ">>
           \o w_v \o <<":", " ", "n", "u", "l", "l", ")">> ]

FieldTexts == {FieldText[k] : k \in DOMAIN FieldText}

RECURSIVE Bodies(_)
\* the texts of n fields, each followed by a space
Bodies(n) ==
    IF n = 0 THEN {<<>>}
    ELSE {b \o f \o Sp : b \in Bodies(n - 1), f \in FieldTexts}

\* no operation keyword, `query `, `mutation `
Prefixes ==
    {<<>>, <<"q","u","e","r","y"," ">>, <<"m","u","t","a","t","i","o","n"," ">>}

Documents ==
    {pre \o <<"{", " ">> \o b \o <<"}">> :
        pre \in Prefixes, b \in UNION {Bodies(n) : n \in 1..MaxFields}}

\* a document, whole or with its last characters missing
QueryTexts ==
    {SubSeq(d, 1, Len(d) - cut) : d \in Documents, cut \in 0..MaxCut}

\* documents of particular shapes
CaseDocument ==
    [ \* an array of objects, scalars, an array and null under a nested selection
      \*   { echo(v: {items: [{a: 1 b: 2} 7 "s" [{a: 1}] null {b: 3}] n: 5}) { items { a } n } }
      items |->
        <<"{"," ","e","c","h","o","(","v",":"," ","{","i","t","e","m","s",
          ":"," ","[","{","a",":"," ","1"," ","b",":"," ","2","}"," ","7",
          " ","\"","s","\""," ","[","{","a",":"," ","1","}","]"," ","n","u",
          "l","l"," ","{","b",":"," ","3","}","]"," ","n",":"," ","5","}",
          ")"," ","{"," ","i","t","e","m","s"," ","{"," ","a"," ","}"," ",
          "n"," ","}"," ","}">>,
      \* arrays within the objects of an array, and an empty array
      \*   { echo(v: {rows: [{cells: [{x: 1 y: 2} 3]} {cells: 4}] none: []}) { rows { cells { x } } none { x } } }
      rows |->
        <<"{"," ","e","c","h","o","(","v",":"," ","{","r","o","w","s",":",
          " ","[","{","c","e","l","l","s",":"," ","[","{","x",":"," ","1",
          " ","y",":"," ","2","}"," ","3","]","}"," ","{","c","e","l","l",
          "s",":"," ","4","}","]"," ","n","o","n","e",":"," ","[","]","}",
          ")"," ","{"," ","r","o","w","s"," ","{"," ","c","e","l","l","s",
          " ","{"," ","x"," ","}"," ","}"," ","n","o","n","e"," ","{"," ",
          "x"," ","}"," ","}"," ","}">>,
      \* the tags of a user
      \*   { user(id: 1) { tags { name } } }
      tags |->
        <<"{"," ","u","s","e","r","(","i","d",":"," ","1",")"," ","{"," ",
          "t","a","g","s"," ","{"," ","n","a","m","e"," ","}"," ","}"," ",
          "}">>,
      \* a selection set on what the variables make echo return
      \*   { e: echo { name } }
      echoSel |->
        <<"{"," ","e",":"," ","e","c","h","o"," ","{"," ","n","a","m","e",
          " ","}"," ","}">>,
      \* a selection set on an array with an object
      \*   { echo(v: [1 {name: "w" id: 2}]) { name } }
      echoArray |->
        <<"{"," ","e","c","h","o","(","v",":"," ","[","1"," ","{","n","a",
          "m","e",":"," ","\"","w","\""," ","i","d",":"," ","2","}","]",")",
          " ","{"," ","n","a","m","e"," ","}"," ","}">>,
      \* a selection set on a string
      \*   { echo(v: "s") { name } }
      echoString |->
        <<"{"," ","e","c","h","o","(","v",":"," ","\"","s","\"",")"," ","{",
          " ","n","a","m","e"," ","}"," ","}">>,
      \* a selection set on an object
      \*   { echo(v: {name: "w" id: 2}) { name } }
      echoObject |->
        <<"{"," ","e","c","h","o","(","v",":"," ","{","n","a","m","e",":",
          " ","\"","w","\""," ","i","d",":"," ","2","}",")"," ","{"," ","n",
          "a","m","e"," ","}"," ","}">>,
      \* a variable reference as an argument value
      \*   { user(id: $id) }
      variable |->
        <<"{"," ","u","s","e","r","(","i","d",":"," ","$","i","d",")"," ",
          "}">>,
      \* a variable reference with its definition
      \*   query Q($id: Int) { user(id: $id) { name } }
      variableDefined |->
        <<"q","u","e","r","y"," ","Q","(","$","i","d",":"," ","I","n","t",
          ")"," ","{"," ","u","s","e","r","(","i","d",":"," ","$","i","d",
          ")"," ","{"," ","n","a","m","e"," ","}"," ","}">>,
      \* a variable reference as an array element
      \*   { echo(v: [$v]) }
      variableInArray |->
        <<"{"," ","e","c","h","o","(","v",":"," ","[","$","v","]",")"," ",
          "}">>,
      \* a variable that reaches the resolver by its name alone
      \*   query Q($id: Int) { user { name } }
      byName |->
        <<"q","u","e","r","y"," ","Q","(","$","i","d",":"," ","I","n","t",
          ")"," ","{"," ","u","s","e","r"," ","{"," ","n","a","m","e"," ",
          "}"," ","}">>,
      \* a mutation
      \*   mutation { setName(name: "Ann") }
      setAnn |->
        <<"m","u","t","a","t","i","o","n"," ","{"," ","s","e","t","N","a",
          "m","e","(","n","a","m","e",":"," ","\"","A","n","n","\"",")"," ",
          "}">>,
      \* nested selections without arguments
      \*   { b: user(id: 2) { name address { city } tags { name } } }
      nestedPlain |->
        <<"{"," ","b",":"," ","u","s","e","r","(","i","d",":"," ","2",")",
          " ","{"," ","n","a","m","e"," ","a","d","d","r","e","s","s"," ",
          "{"," ","c","i","t","y"," ","}"," ","t","a","g","s"," ","{"," ",
          "n","a","m","e"," ","}"," ","}"," ","}">>,
      \* the same with arguments on the nested selections
      \*   { b: user(id: 2) { name(x: 1) address(zip: "z" id: 9) { city(v: false) } tags(first: 1) { name } } }
      nestedArgs |->
        <<"{"," ","b",":"," ","u","s","e","r","(","i","d",":"," ","2",")",
          " ","{"," ","n","a","m","e","(","x",":"," ","1",")"," ","a","d",
          "d","r","e","s","s","(","z","i","p",":"," ","\"","z","\""," ","i",
          "d",":"," ","9",")"," ","{"," ","c","i","t","y","(","v",":"," ",
          "f","a","l","s","e",")"," ","}"," ","t","a","g","s","(","f","i",
          "r","s","t",":"," ","1",")"," ","{"," ","n","a","m","e"," ","}",
          " ","}"," ","}">>,
      \* the same with other arguments on the nested selections
      \*   { b: user(id: 2) { name(x: 2 id: 1) address { city(id: 1) } tags(id: 1 v: null) { name } } }
      nestedOther |->
        <<"{"," ","b",":"," ","u","s","e","r","(","i","d",":"," ","2",")",
          " ","{"," ","n","a","m","e","(","x",":"," ","2"," ","i","d",":",
          " ","1",")"," ","a","d","d","r","e","s","s"," ","{"," ","c","i",
          "t","y","(","i","d",":"," ","1",")"," ","}"," ","t","a","g","s",
          "(","i","d",":"," ","1"," ","v",":"," ","n","u","l","l",")"," ",
          "{"," ","n","a","m","e"," ","}"," ","}"," ","}">> ]

\* documents that parse(), to be followed by more text
WholeDocuments == {CaseDocument.tags, CaseDocument.byName, CaseDocument.echoObject, CaseDocument.setAnn, CaseDocument.nestedArgs}

\* what may follow the closing brace of a document
Suffixes ==
    { <<"}">>, <<" ", "}", " ", "}">>, <<" ", "x">>, <<"\"">>, <<"$">>, <<"(">>,
      <<" ", "{", " ">> \o w_echo \o <<" ", "}">>,
      <<"\n", "q","u","e","r","y", " ", "{">> }

CaseTexts ==
    {CaseDocument[k] : k \in DOMAIN CaseDocument}
       \cup {d \o s : d \in WholeDocuments, s \in Suffixes}

\* (variables, context) of a call
Inputs ==
    { <<EmptyObject, EmptyObject>>,
      <<Obj(w_id :> Int32(1) @@ w_v :> Bool(TRUE)),
        Obj(w_role :> Str(<<"a">>))>>,
      <<Obj(w_id :> Int32(3) @@ w_v :> Int32(7)), EmptyObject>>,
      <<Obj(w_v :> Arr(<<Float(25, 1), Str(<<"w">>)>>)), EmptyObject>> }

\* the resolvers an application registers, by field name
QueryResolvers == {<<w_user, "user">>, <<w_echo, "echo">>}
MutationResolvers == {<<w_setName, "setName">>}

NoResolvers == [k \in {} |-> "none"]
NoQuery == ParsedQuery("none", <<>>, <<>>)

\* the threads that call execute() on one Schema at the same time
Threads == 1..MaxThreads
\* a thread that has not called execute()
NoCall == [pc |-> "idle"]
\* no GraphQLParser constructed
NoParser == [state |-> "none"]

(***************************************************************************)
(* The state                                                               *)
(***************************************************************************)
VARIABLES
    queryResolvers_,     \* Schema: field name -> resolver
    mutationResolvers_,  \* Schema: field name -> resolver
    pc,                  \* "setup": no call yet; "fields": in the loop of
                         \* execute; "returned": execute has returned
    queryStr,            \* execute's arguments
    variables,
    context,
    parsed,              \* execute's locals
    index,               \* the position in parsed.selections of the next field
    data,
    errors,
    response,            \* what execute returned
    calls,               \* history: the resolver invocations of the call
    threads,             \* the execute() calls that run concurrently: for each
                         \* thread the arguments, locals and position of its call
    parser               \* a GraphQLParser on its own: source_ and what parse()
                         \* returned or threw

vars == <<queryResolvers_, mutationResolvers_, pc, queryStr, variables, context,
          parsed, index, data, errors, response, calls, threads, parser>>

Init ==
    /\ queryResolvers_ = NoResolvers
    /\ mutationResolvers_ = NoResolvers
    /\ pc = "setup"
    /\ queryStr = <<>>
    /\ variables = EmptyObject
    /\ context = EmptyObject
    /\ parsed = NoQuery
    /\ index = 0
    /\ data = Null
    /\ errors = EmptyArray
    /\ response = Null
    /\ calls = <<>>
    /\ threads = [t \in Threads |-> NoCall]
    /\ parser = NoParser

Register(registry, name, resolver) ==
    [k \in DOMAIN registry \cup {name} |->
        IF k = name THEN resolver ELSE registry[k]]

\* Schema::query(name, resolver)
query ==
    /\ pc = "setup"
    /\ \E r \in QueryResolvers :
          queryResolvers_' = Register(queryResolvers_, r[1], r[2])
    /\ UNCHANGED <<mutationResolvers_, pc, queryStr, variables, context, parsed,
                   index, data, errors, response, calls>>
    /\ UNCHANGED <<threads, parser>>

\* Schema::mutation(name, resolver)
mutation ==
    /\ pc = "setup"
    /\ \E r \in MutationResolvers :
          mutationResolvers_' = Register(mutationResolvers_, r[1], r[2])
    /\ UNCHANGED <<queryResolvers_, pc, queryStr, variables, context, parsed,
                   index, data, errors, response, calls>>
    /\ UNCHANGED <<threads, parser>>

\* parser.parse() of every query text, computed once
parseOf == [q \in QueryTexts \cup CaseTexts |-> parse(q)]

\* executeCall with errors kept from the call before, as a member would be
executeCall_keepsErrors(q, in) ==
    LET result == parseOf[q]
    IN  /\ queryStr' = q
        /\ variables' = in[1]
        /\ context' = in[2]
        /\ calls' = <<>>
        /\ IF result.ok
           THEN /\ parsed' = result.val
                /\ data' = EmptyObject
                /\ errors' = errors
                /\ index' = 1
                /\ pc' = "fields"
                /\ UNCHANGED response
           ELSE /\ response' = parseErrorResponse(result.what)
                /\ pc' = "returned"
                /\ UNCHANGED <<parsed, data, errors, index>>
        /\ UNCHANGED <<queryResolvers_, mutationResolvers_, threads, parser>>

\* execute(queryStr, variables, context) up to the loop over the fields: the
\* text is parsed; a parse error is caught by the outer handler, which returns.
\* response keeps what the previous call returned until this call returns.
executeCall(q, in) ==
    LET result == parseOf[q]
    IN  /\ queryStr' = q
        /\ variables' = in[1]
        /\ context' = in[2]
        /\ calls' = <<>>
        /\ IF result.ok
           THEN /\ parsed' = result.val
                /\ data' = EmptyObject
                /\ errors' = EmptyArray
                /\ index' = 1
                /\ pc' = "fields"
                /\ UNCHANGED response
           ELSE /\ response' = parseErrorResponse(result.what)
                /\ pc' = "returned"
                /\ UNCHANGED <<parsed, data, errors, index>>
        /\ UNCHANGED <<queryResolvers_, mutationResolvers_, threads, parser>>

\* the first call of execute on the schema
execute ==
    /\ pc = "setup"
    /\ \E q \in QueryTexts : \E in \in Inputs : executeCall(q, in)

\* the same call of execute once more, after it has returned
executeAgain ==
    /\ pc = "returned"
    /\ executeCall(queryStr, <<variables, context>>)

\* resolvers with the other registry searched when the selected one has no entry
resolvers_fallsBack ==
    LET selected == IF parsed.operationType = "mutation" THEN mutationResolvers_
                    ELSE queryResolvers_
        other == IF parsed.operationType = "mutation" THEN queryResolvers_
                 ELSE mutationResolvers_
    IN  [k \in DOMAIN selected \cup DOMAIN other |->
            IF k \in DOMAIN selected THEN selected[k] ELSE other[k]]

resolvers ==
    IF parsed.operationType = "mutation" THEN mutationResolvers_
    ELSE queryResolvers_

\* unknownField with the field skipped and no error recorded
unknownField_silent ==
    /\ pc = "fields"
    /\ index <= Len(parsed.selections)
    /\ parsed.selections[index].name \notin DOMAIN resolvers
    /\ index' = index + 1
    /\ UNCHANGED <<queryResolvers_, mutationResolvers_, pc, queryStr, variables,
                   context, parsed, data, errors, response, calls>>
    /\ UNCHANGED <<threads, parser>>

\* unknownField with the field's data entry set to null
unknownField_setsNull ==
    /\ pc = "fields"
    /\ index <= Len(parsed.selections)
    /\ LET field == parsed.selections[index]
       IN  /\ field.name \notin DOMAIN resolvers
           /\ errors' = push_back(errors,
                                  unknownFieldError(field, parsed.operationType))
           /\ data' = Put(data, outputKey(field), Null)
    /\ index' = index + 1
    /\ UNCHANGED <<queryResolvers_, mutationResolvers_, pc, queryStr, variables,
                   context, parsed, response, calls>>
    /\ UNCHANGED <<threads, parser>>

\* one iteration of the loop, for a field with no resolver
unknownField ==
    /\ pc = "fields"
    /\ index <= Len(parsed.selections)
    /\ LET field == parsed.selections[index]
       IN  /\ field.name \notin DOMAIN resolvers
           /\ errors' = push_back(errors,
                                  unknownFieldError(field, parsed.operationType))
    /\ index' = index + 1
    /\ UNCHANGED <<queryResolvers_, mutationResolvers_, pc, queryStr, variables,
                   context, parsed, data, response, calls>>
    /\ UNCHANGED <<threads, parser>>

\* resolveField with a failed resolver ending the loop
resolveField_stopsAfterFailure ==
    /\ pc = "fields"
    /\ index <= Len(parsed.selections)
    /\ LET field == parsed.selections[index]
       IN  /\ field.name \in DOMAIN resolvers
           /\ LET args == mergedArguments(field, variables)
                  result == Invoke(resolvers[field.name], args, context)
              IN  /\ calls' = Append(calls, [index |-> index, name |-> field.name,
                                             args |-> args, context |-> context,
                                             result |-> result])
                  /\ IF result.ok
                     THEN /\ data' = Put(data, outputKey(field),
                                         projected(field, result.val))
                          /\ index' = index + 1
                          /\ UNCHANGED errors
                     ELSE /\ errors' = push_back(errors,
                                                 resolverError(field, result.what))
                          /\ data' = Put(data, failureKey(field), Null)
                          /\ index' = Len(parsed.selections) + 1
    /\ UNCHANGED <<queryResolvers_, mutationResolvers_, pc, queryStr, variables,
                   context, parsed, response>>
    /\ UNCHANGED <<threads, parser>>

\* one iteration of the loop, for a field with a resolver
resolveField ==
    /\ pc = "fields"
    /\ index <= Len(parsed.selections)
    /\ LET field == parsed.selections[index]
       IN  /\ field.name \in DOMAIN resolvers
           /\ LET args == mergedArguments(field, variables)
                  result == Invoke(resolvers[field.name], args, context)
              IN  /\ calls' = Append(calls, [index |-> index, name |-> field.name,
                                             args |-> args, context |-> context,
                                             result |-> result])
                  /\ IF result.ok
                     THEN /\ data' = Put(data, outputKey(field),
                                         projected(field, result.val))
                          /\ UNCHANGED errors
                     ELSE /\ errors' = push_back(errors,
                                                 resolverError(field, result.what))
                          /\ data' = Put(data, failureKey(field), Null)
    /\ index' = index + 1
    /\ UNCHANGED <<queryResolvers_, mutationResolvers_, pc, queryStr, variables,
                   context, parsed, response>>
    /\ UNCHANGED <<threads, parser>>

\* after the loop: the envelope is built and returned
return ==
    /\ pc = "fields"
    /\ index > Len(parsed.selections)
    /\ response' = makeResponse(data, errors)
    /\ pc' = "returned"
    /\ UNCHANGED <<queryResolvers_, mutationResolvers_, queryStr, variables,
                   context, parsed, index, data, errors, calls>>
    /\ UNCHANGED <<threads, parser>>

Next ==
    \/ query \/ mutation \/ execute \/ executeAgain
    \/ unknownField \/ resolveField \/ return

Spec == Init /\ [][Next]_vars

\* a call of execute on a document of a particular shape
executeCase ==
    /\ pc = "setup"
    /\ \E q \in CaseTexts : \E in \in Inputs : executeCall(q, in)

CaseNext ==
    \/ query \/ mutation \/ executeCase
    \/ unknownField \/ resolveField \/ return

CaseSpec == Init /\ [][CaseNext]_vars

(***************************************************************************)
(* Schema::execute as a whole: the envelope of one call that runs alone    *)
(***************************************************************************)
RECURSIVE executeFields(_, _, _, _, _, _)
\* the loop over parsed.selections from field i on, then the response
executeFields(parsedQuery, i, dataSoFar, errorsSoFar, variablesArg, contextArg) ==
    IF i > Len(parsedQuery.selections) THEN makeResponse(dataSoFar, errorsSoFar)
    ELSE
    LET field == parsedQuery.selections[i]
        registry == IF parsedQuery.operationType = "mutation"
                    THEN mutationResolvers_ ELSE queryResolvers_
    IN  IF field.name \notin DOMAIN registry
        THEN executeFields(parsedQuery, i + 1, dataSoFar,
                           push_back(errorsSoFar,
                                     unknownFieldError(field,
                                         parsedQuery.operationType)),
                           variablesArg, contextArg)
        ELSE LET result == Invoke(registry[field.name],
                                  mergedArguments(field, variablesArg),
                                  contextArg)
             IN  IF result.ok
                 THEN executeFields(parsedQuery, i + 1,
                                    Put(dataSoFar, outputKey(field),
                                        projected(field, result.val)),
                                    errorsSoFar, variablesArg, contextArg)
                 ELSE executeFields(parsedQuery, i + 1,
                                    Put(dataSoFar, failureKey(field), Null),
                                    push_back(errorsSoFar,
                                              resolverError(field, result.what)),
                                    variablesArg, contextArg)

executeAlone(q, variablesArg, contextArg) ==
    IF parseOf[q].ok
    THEN executeFields(parseOf[q].val, 1, EmptyObject, EmptyArray,
                       variablesArg, contextArg)
    ELSE parseErrorResponse(parseOf[q].what)

(***************************************************************************)
(* Concurrent calls of execute on one Schema.  Every call has its own      *)
(* parser, parsed, data, errors and response (locals of execute); the      *)
(* registries are members of the Schema, which execute only reads.  A step *)
(* of a thread is what the sequential call does in one step; the steps of  *)
(* different threads interleave freely.                                    *)
(***************************************************************************)
\* a document of two fields
Document2(pre, f1, f2) == pre \o <<"{", " ">> \o f1 \o Sp \o f2 \o Sp \o <<"}">>

\* (queryStr, variables, context) of the calls that run concurrently
ConcurrentCalls ==
    { \* { user: user(id: 1) a: user { name } }
      <<Document2(<<>>, FieldText.userById, FieldText.aUser), EmptyObject, EmptyObject>>,
      \* { echo setName(name: "Bob" v: null) }
      <<Document2(<<>>, FieldText.echo, FieldText.setName),
        Obj(w_id :> Int32(1) @@ w_v :> Bool(TRUE)), Obj(w_role :> Str(<<"a">>))>>,
      \* mutation { setName(name: "Bob" v: null) user }
      <<Document2(<<"m","u","t","a","t","i","o","n"," ">>, FieldText.setName, FieldText.user),
        Obj(w_id :> Int32(3) @@ w_v :> Int32(7)), EmptyObject>>,
      \* { b:user(id:2){...} user }
      <<Document2(<<>>, FieldText.bUser, FieldText.user),
        Obj(w_id :> Int32(3) @@ w_v :> Int32(7)), EmptyObject>>,
      \* { echo         (the closing brace is missing)
      <<<<"{", " ">> \o FieldText.echo \o Sp, EmptyObject, EmptyObject>> }

\* the registry that holds every resolver of a set of registrations
Registered(registrations) ==
    [name \in {r[1] : r \in registrations} |->
        (CHOOSE r \in registrations : r[1] = name)[2]]

\* registration has completed; no thread has called execute yet
ConcurrentInit ==
    /\ queryResolvers_ = Registered(QueryResolvers)
    /\ mutationResolvers_ = Registered(MutationResolvers)
    /\ pc = "setup"
    /\ queryStr = <<>>
    /\ variables = EmptyObject
    /\ context = EmptyObject
    /\ parsed = NoQuery
    /\ index = 0
    /\ data = Null
    /\ errors = EmptyArray
    /\ response = Null
    /\ calls = <<>>
    /\ threads = [t \in Threads |-> NoCall]
    /\ parser = NoParser

\* what a thread's step leaves alone: the Schema and the sequential call
threadFrame ==
    UNCHANGED <<queryResolvers_, mutationResolvers_, pc, queryStr, variables,
                context, parsed, index, data, errors, response, calls, parser>>

\* thread t calls execute(queryStr, variables, context): up to the loop
threadExecute(t) ==
    /\ threads[t].pc = "idle"
    /\ \E c \in ConcurrentCalls :
          LET result == parseOf[c[1]]
          IN  threads' = [threads EXCEPT ![t] =
                 IF result.ok
                 THEN [pc |-> "fields", queryStr |-> c[1], variables |-> c[2],
                       context |-> c[3], parsed |-> result.val, index |-> 1,
                       data |-> EmptyObject, errors |-> EmptyArray,
                       response |-> Null]
                 ELSE [pc |-> "returned", queryStr |-> c[1], variables |-> c[2],
                       context |-> c[3], parsed |-> NoQuery, index |-> 0,
                       data |-> Null, errors |-> EmptyArray,
                       response |-> parseErrorResponse(result.what)]]
    /\ threadFrame

threadResolvers(t) ==
    IF threads[t].parsed.operationType = "mutation" THEN mutationResolvers_
    ELSE queryResolvers_

\* one iteration of thread t's loop, for a field with no resolver
threadUnknownField(t) ==
    /\ threads[t].pc = "fields"
    /\ threads[t].index <= Len(threads[t].parsed.selections)
    /\ LET field == threads[t].parsed.selections[threads[t].index]
       IN  /\ field.name \notin DOMAIN threadResolvers(t)
           /\ threads' = [threads EXCEPT
                 ![t].errors = push_back(@, unknownFieldError(field,
                                   threads[t].parsed.operationType)),
                 ![t].index = @ + 1]
    /\ threadFrame

\* threadResolveField with the errors array shared by all running calls
threadResolveField_sharedErrors(t) ==
    /\ threads[t].pc = "fields"
    /\ threads[t].index <= Len(threads[t].parsed.selections)
    /\ LET field == threads[t].parsed.selections[threads[t].index]
       IN  /\ field.name \in DOMAIN threadResolvers(t)
           /\ LET args == mergedArguments(field, threads[t].variables)
                  result == Invoke(threadResolvers(t)[field.name], args,
                                   threads[t].context)
              IN  IF result.ok
                  THEN threads' = [threads EXCEPT
                          ![t].data = Put(@, outputKey(field),
                                          projected(field, result.val)),
                          ![t].index = @ + 1]
                  ELSE threads' = [u \in Threads |->
                          IF u = t
                          THEN [threads[u] EXCEPT
                                  !.errors = push_back(@,
                                      resolverError(field, result.what)),
                                  !.data = Put(@, failureKey(field), Null),
                                  !.index = @ + 1]
                          ELSE IF threads[u].pc = "fields"
                          THEN [threads[u] EXCEPT
                                  !.errors = push_back(@,
                                      resolverError(field, result.what))]
                          ELSE threads[u]]
    /\ threadFrame

\* one iteration of thread t's loop, for a field with a resolver
threadResolveField(t) ==
    /\ threads[t].pc = "fields"
    /\ threads[t].index <= Len(threads[t].parsed.selections)
    /\ LET field == threads[t].parsed.selections[threads[t].index]
       IN  /\ field.name \in DOMAIN threadResolvers(t)
           /\ LET args == mergedArguments(field, threads[t].variables)
                  result == Invoke(threadResolvers(t)[field.name], args,
                                   threads[t].context)
              IN  IF result.ok
                  THEN threads' = [threads EXCEPT
                          ![t].data = Put(@, outputKey(field),
                                          projected(field, result.val)),
                          ![t].index = @ + 1]
                  ELSE threads' = [threads EXCEPT
                          ![t].errors = push_back(@,
                                            resolverError(field, result.what)),
                          ![t].data = Put(@, failureKey(field), Null),
                          ![t].index = @ + 1]
    /\ threadFrame

\* after thread t's loop: the envelope is built and returned
threadReturn(t) ==
    /\ threads[t].pc = "fields"
    /\ threads[t].index > Len(threads[t].parsed.selections)
    /\ threads' = [threads EXCEPT
          ![t].response = makeResponse(threads[t].data, threads[t].errors),
          ![t].pc = "returned"]
    /\ threadFrame

ConcurrentNext ==
    \E t \in Threads :
       \/ threadExecute(t)
       \/ threadUnknownField(t)
       \/ threadResolveField(t)
       \/ threadReturn(t)

ConcurrentSpec == ConcurrentInit /\ [][ConcurrentNext]_vars

(***************************************************************************)
(* A GraphQLParser on its own: GraphQLParser(source), then parse()         *)
(***************************************************************************)
\* what stands where a query text has a field name
NameTokens ==
    { <<"a">>, <<"_", "b">>, <<"B", "2">>, w_name, <<"x", "_", "1">>,
      <<"1">>, <<"9", "z">>, <<"2", "_">>, <<"0", "0", "7">>,
      <<"$">>, <<"-", "x">>, <<"a", "-", "b">>, <<"@", "c">>, <<"!">> }

\* a bare word where a query text has an argument value
WordTokens ==
    { <<"t","r","u","e">>, <<"f","a","l","s","e">>, <<"n","u","l","l">>,
      <<"t","x">>, <<"t","r","u","t","h">>, <<"f">>, <<"f","o","o">>,
      <<"n","u","l">>, <<"n","o","t","h","i","n","g">>,
      <<"R","E","D">>, <<"r","e","d">>, <<"_","x">>, <<"T","r","u","e">>,
      <<"N","U","L","L">> }

\* { N }
TopLevelName(n) == <<"{", " ">> \o n \o <<" ", "}">>
\* { user { N } }
NestedName(n) ==
    <<"{", " ">> \o w_user \o <<" ", "{", " ">> \o n \o <<" ", "}", " ", "}">>
\* { a: N(id: 1) }
AliasedName(n) ==
    <<"{", " ", "a", ":", " ">> \o n \o <<"(">> \o w_id
       \o <<":", " ", "1", ")", " ", "}">>

\* { echo(v: W) }
WordArgument(w) ==
    <<"{", " ">> \o w_echo \o <<"(">> \o w_v \o <<":", " ">> \o w \o <<")", " ", "}">>
\* { echo(v: [W]) }
WordInArray(w) ==
    <<"{", " ">> \o w_echo \o <<"(">> \o w_v \o <<":", " ", "[">> \o w
       \o <<"]", ")", " ", "}">>
\* { echo(v: {k: W}) }
WordInObject(w) ==
    <<"{", " ">> \o w_echo \o <<"(">> \o w_v \o <<":", " ", "{", "k", ":", " ">>
       \o w \o <<"}", ")", " ", "}">>

\* documents whose top-level selection set holds no field
EmptySelectionTexts ==
    { \* {}
      <<"{","}">>,
      \* { }
      <<"{"," ","}">>,
      \* query { }
      <<"q","u","e","r","y"," ","{"," ","}">>,
      \* mutation Q {,}
      <<"m","u","t","a","t","i","o","n"," ","Q"," ","{",",","}">> }

\* texts that parse() rejects
Malformed ==
    [ \* the selection set is not closed
      \*   { user
      unclosed |->
        <<"{"," ","u","s","e","r">>,
      \* an argument without its colon
      \*   { user(id 1) }
      noColon |->
        <<"{"," ","u","s","e","r","(","i","d"," ","1",")"," ","}">>,
      \* an argument list that is not closed
      \*   { user(id: 1 }
      noParen |->
        <<"{"," ","u","s","e","r","(","i","d",":"," ","1"," ","}">>,
      \* a string that is not closed
      \*   { echo(v: "ab) }
      openString |->
        <<"{"," ","e","c","h","o","(","v",":"," ","\"","a","b",")"," ","}">>,
      \* a named operation without its opening brace
      \*   query user }
      noBrace |->
        <<"q","u","e","r","y"," ","u","s","e","r"," ","}">>,
      \* variable definitions that are not closed
      \*   query Q(
      unbalanced |->
        <<"q","u","e","r","y"," ","Q","(">>,
      \* an operation keyword that is neither query nor mutation
      \*   user }
      keyword |->
        <<"u","s","e","r"," ","}">>,
      \* an operation keyword that is neither query nor mutation
      \*   subscription { user }
      subscription |->
        <<"s","u","b","s","c","r","i","p","t","i","o","n"," ","{"," ","u",
          "s","e","r"," ","}">>,
      \* no identifier where a field name is expected
      \*   { $ }
      badName |->
        <<"{"," ","$"," ","}">>,
      \* no text at all
      \*   (empty)
      empty |->
        <<>> ]

MalformedTexts == {Malformed[k] : k \in DOMAIN Malformed}

\* number literals
NumberLiterals ==
    [ \* without a '.', within int
      integer |->
        { <<"4","2">>,
          <<"-","7">>,
          <<"0">>,
          <<"0","0","7">>,
          <<"-","0">>,
          <<"2","1","4","7","4","8","3","6","4","7">>,
          <<"-","2","1","4","7","4","8","3","6","4","8">> },
      \* without a '.', beyond int
      wide |->
        { <<"2","1","4","7","4","8","3","6","4","8">>,
          <<"3","0","0","0","0","0","0","0","0","0">>,
          <<"-","2","1","4","7","4","8","3","6","4","9">> },
      \* with a '.'
      decimal |->
        { <<"3",".","1","4">>,
          <<"-","0",".","5">>,
          <<"1",".","5","0">>,
          <<"0",".","0">>,
          <<"1","0",".","2","5">> },
      \* followed by an exponent
      exponent |->
        { <<"1","e","5">>,
          <<"2","E","3">>,
          <<"1",".","5","e","2">> } ]

\* documents as their tokens
TokenDocument ==
    [ \* a field with an argument and two nested selections
      \*   { user ( id : 1 ) { name id } }
      user |->
        << <<"{">>,
           <<"u","s","e","r">>,
           <<"(">>,
           <<"i","d">>,
           <<":">>,
           <<"1">>,
           <<")">>,
           <<"{">>,
           <<"n","a","m","e">>,
           <<"i","d">>,
           <<"}">>,
           <<"}">> >>,
      \* a named operation with variable definitions, aliases and every kind of literal
      \*   query Q ( $a : Int ) { a : echo ( v : [ 1 "x y" true ] w : { k : -2 } ) b : user { address { city } } }
      operation |->
        << <<"q","u","e","r","y">>,
           <<"Q">>,
           <<"(">>,
           <<"$","a">>,
           <<":">>,
           <<"I","n","t">>,
           <<")">>,
           <<"{">>,
           <<"a">>,
           <<":">>,
           <<"e","c","h","o">>,
           <<"(">>,
           <<"v">>,
           <<":">>,
           <<"[">>,
           <<"1">>,
           <<"\"","x"," ","y","\"">>,
           <<"t","r","u","e">>,
           <<"]">>,
           <<"w">>,
           <<":">>,
           <<"{">>,
           <<"k">>,
           <<":">>,
           <<"-","2">>,
           <<"}">>,
           <<")">>,
           <<"b">>,
           <<":">>,
           <<"u","s","e","r">>,
           <<"{">>,
           <<"a","d","d","r","e","s","s">>,
           <<"{">>,
           <<"c","i","t","y">>,
           <<"}">>,
           <<"}">>,
           <<"}">> >>,
      \* a mutation
      \*   mutation { setName ( name : "Bob" ) }
      mutation |->
        << <<"m","u","t","a","t","i","o","n">>,
           <<"{">>,
           <<"s","e","t","N","a","m","e">>,
           <<"(">>,
           <<"n","a","m","e">>,
           <<":">>,
           <<"\"","B","o","b","\"">>,
           <<")">>,
           <<"}">> >>,
      \* an argument without its colon, which parse() rejects
      \*   { user ( id 1 ) }
      noColon |->
        << <<"{">>,
           <<"u","s","e","r">>,
           <<"(">>,
           <<"i","d">>,
           <<"1">>,
           <<")">>,
           <<"}">> >> ]

TokenDocuments == {TokenDocument[k] : k \in DOMAIN TokenDocument}

\* what may stand between two tokens
Separators ==
    { <<>>, <<" ">>, <<"\t">>, <<"\n">>, <<"\r">>, <<",">>,
      <<" ", ",", "\n">> }

\* the separator sep before the i-th token; a space where the tokens on its
\* two sides would read as one token without a separator
Gap(tokens, i, sep) ==
    IF /\ sep = <<>>
       /\ i \in 2..Len(tokens)
       /\ isIdentChar(tokens[i - 1][Len(tokens[i - 1])])
       /\ isIdentChar(tokens[i][1])
    THEN <<" ">>
    ELSE sep

\* the tokens from the i-th on, each after its gap, then the last gap
RECURSIVE Spaced(_, _, _)
Spaced(tokens, gaps, i) ==
    IF i > Len(tokens) THEN gaps[i]
    ELSE gaps[i] \o tokens[i] \o Spaced(tokens, gaps, i + 1)

\* the tokens a space apart with nothing before and after, the gaps in
\* changed set to sep
Spacing(tokens, changed, sep) ==
    Spaced(tokens,
           [j \in 1..(Len(tokens) + 1) |->
               IF j \in changed THEN Gap(tokens, j, sep)
               ELSE IF j \in 2..Len(tokens) THEN <<" ">> ELSE <<>>], 1)

\* the spacings of each document: no gap changed, one, all
Spacings ==
    [tokens \in TokenDocuments |->
        {Spacing(tokens, {}, <<>>)}
           \cup {Spacing(tokens, {i}, sep) :
                    i \in 1..(Len(tokens) + 1), sep \in Separators}
           \cup {Spacing(tokens, 1..(Len(tokens) + 1), sep) :
                    sep \in Separators}]

\* a text cut short after any number of its characters
Truncations(text) == {SubSeq(text, 1, n) : n \in 0..Len(text)}

\* texts cut short, and closing delimiters with nothing open
TruncatedTexts ==
    UNION {Truncations(Spacing(tokens, {}, <<>>)) : tokens \in TokenDocuments}
       \* a string with escapes, nested values and nested selection sets:
       \*   { echo(v: "a\"b\\" w: [[1 {k: [2]}] []]) { a { b { c } } } }
       \cup Truncations(
          <<"{"," ","e","c","h","o","(","v",":"," ","\"","a","\\","\"","b",
            "\\","\\","\""," ","w",":"," ","[","[","1"," ","{","k",":"," ",
            "[","2","]","}","]"," ","[","]","]",")"," ","{"," ","a"," ","{",
            " ","b"," ","{"," ","c"," ","}"," ","}"," ","}"," ","}">>)
       \cup { <<"}">>, <<"{", " ", "a", " ", "}", "}">>,
               <<"{", " ", "a", "(", ")", ")", " ", "}">>,
               <<"{", " ", "a", "(", "v", ":", " ", "]", ")", " ", "}">>,
               <<"q", "u", "e", "r", "y", " ", "Q", "(", "(", ")", " ", "{",
                 " ", "a", " ", "}">> }

ParserTexts ==
    {TopLevelName(n) : n \in NameTokens}
       \cup {NestedName(n) : n \in NameTokens}
       \cup {AliasedName(n) : n \in NameTokens}
       \cup {WordArgument(w) : w \in WordTokens}
       \cup {WordInArray(w) : w \in WordTokens}
       \cup {WordInObject(w) : w \in WordTokens}
       \cup EmptySelectionTexts
       \cup MalformedTexts
       \cup {WordArgument(n) :
               n \in UNION {NumberLiterals[k] : k \in DOMAIN NumberLiterals}}
       \cup {WordInArray(n) :
               n \in UNION {NumberLiterals[k] : k \in DOMAIN NumberLiterals}}
       \cup UNION {Spacings[tokens] : tokens \in TokenDocuments}
       \cup TruncatedTexts

\* parse() of every parser text, computed once
parseOfText == [text \in ParserTexts |-> parse(text)]

\* what a parser step leaves alone: the Schema and its calls
parserFrame ==
    UNCHANGED <<queryResolvers_, mutationResolvers_, pc, queryStr, variables,
                context, parsed, index, data, errors, response, calls, threads>>

\* explicit GraphQLParser(const std::string& source)
GraphQLParser ==
    /\ parser.state = "none"
    /\ \E text \in ParserTexts :
          parser' = [state |-> "constructed", source_ |-> text]
    /\ parserFrame

\* parser.parse(): result is the ParsedQuery it returned or what it threw
parserParse ==
    /\ parser.state = "constructed"
    /\ parser' = [state |-> "done", source_ |-> parser.source_,
                  result |-> parseOfText[parser.source_]]
    /\ parserFrame

ParserNext == GraphQLParser \/ parserParse

ParserSpec == Init /\ [][ParserNext]_vars

(***************************************************************************)
(* What the properties speak of                                            *)
(***************************************************************************)
Selections == parsed.selections
InCall == pc \in {"fields", "returned"} /\ parsed # NoQuery
ParseFailed == ~parseOf[queryStr].ok
Known(i) == Selections[i].name \in DOMAIN resolvers
CallsOf(i) == {k \in 1..Len(calls) : calls[k].index = i}
Succeeded(i) == \E k \in CallsOf(i) : calls[k].result.ok
Failed(i) == \E k \in CallsOf(i) : ~calls[k].result.ok
ResultOf(i) == calls[CHOOSE k \in CallsOf(i) : TRUE].result
\* the field that the last step of the loop processed
LastField == Selections[index - 1]
AfterStep == pc = "fields" /\ index > 1
StartsWith(text, prefix) ==
    Len(text) >= Len(prefix) /\ SubSeq(text, 1, Len(prefix)) = prefix

(***************************************************************************)
(* C1: for a successfully parsed query, every top-level field whose name   *)
(* is registered in the selected registry has its resolver invoked exactly *)
(* once, whatever happens to the other fields, and the loop reaches every  *)
(* field: no unknown field and no failed resolver ends it early.           *)
(***************************************************************************)
C1_RegisteredFieldsInvokedOnce ==
    InCall =>
       /\ \A i \in 1..Len(Selections) :
             i < index /\ Known(i) => Cardinality(CallsOf(i)) = 1
       /\ pc = "returned" => index = Len(Selections) + 1

\* a resolver failed on the first field and the second field's ran
C1_Witness ==
    /\ pc = "returned" /\ parsed # NoQuery
    /\ Len(Selections) = 2
    /\ Failed(1)
    /\ Succeeded(2)

(***************************************************************************)
(* C2: the failure of a field's resolver writes or overwrites no entry of  *)
(* data other than that field's own output key (alias if given, else      *)
(* name): every other entry is after the step what it was before it.       *)
(***************************************************************************)
C2_FailureWritesOnlyOwnKey ==
    [][(/\ pc = "fields"
        /\ index <= Len(Selections)
        /\ Len(calls') = Len(calls) + 1
        /\ ~calls'[Len(calls')].result.ok)
       => \A key \in (DOMAIN data.f \cup DOMAIN data'.f)
                        \ {outputKey(Selections[index])} :
             /\ key \in DOMAIN data.f
             /\ key \in DOMAIN data'.f
             /\ data'.f[key] = data.f[key]]_vars

(***************************************************************************)
(* C3: when the resolver of a registered top-level field fails, execute    *)
(* appends one error {message: the failure text, path: [name]} and sets    *)
(* data[K] to null, K being the alias when given and the name otherwise.   *)
(***************************************************************************)
C3_FailureNullsOutputKey ==
    AfterStep /\ Failed(index - 1) =>
       /\ errors.a # <<>>
       /\ errors.a[Len(errors.a)].f[w_message] = Str(ResultOf(index - 1).what)
       /\ errors.a[Len(errors.a)].f[w_path] = Arr(<<Str(LastField.name)>>)
       /\ contains(data, outputKey(LastField))
       /\ data.f[outputKey(LastField)] = Null

(***************************************************************************)
(* C4: a top-level field whose name is not in the selected registry adds   *)
(* one error, with message "Cannot query field '<name>' on type            *)
(* '<operationType>'" and path [name]; the step sets no data key, invokes  *)
(* no resolver and goes on to the next field.                              *)
(***************************************************************************)
C4_UnknownFieldOnlyAddsError ==
    [][(pc = "fields" /\ index <= Len(Selections) /\ ~Known(index))
       => /\ Len(errors'.a) = Len(errors.a) + 1
          /\ SubSeq(errors'.a, 1, Len(errors.a)) = errors.a
          /\ errors'.a[Len(errors'.a)].f[w_message]
                = Str(<<"Cannot query field '">> \o Selections[index].name
                      \o <<"' on type '", parsed.operationType, "'">>)
          /\ errors'.a[Len(errors'.a)].f[w_path]
                = Arr(<<Str(Selections[index].name)>>)
          /\ data' = data
          /\ calls' = calls
          /\ index' = index + 1
          /\ pc' = "fields"]_vars

\* an unknown field has been passed, data has no entry for it, and a field
\* is still to come
C4_Witness ==
    /\ AfterStep
    /\ ~Known(index - 1)
    /\ ~contains(data, outputKey(LastField))
    /\ errors.a # <<>>
    /\ index <= Len(Selections)
    /\ Known(index)

(***************************************************************************)
(* C5: if the query text fails to parse, wherever the failure is, no       *)
(* resolver is invoked and the envelope's errors list has exactly one      *)
(* entry, whose message begins with "Parse error: ".                       *)
(***************************************************************************)
C5_ParseFailureRunsNothing ==
    pc = "returned" /\ ParseFailed =>
       /\ calls = <<>>
       /\ contains(response, w_errors)
       /\ is_array(response.f[w_errors])
       /\ Len(response.f[w_errors].a) = 1
       /\ Head(response.f[w_errors].a[1].f[w_message].s) = "Parse error: "

\* the text fails after a well-formed field whose resolver is registered
C5_Witness ==
    /\ pc = "returned" /\ ParseFailed
    /\ w_user \in DOMAIN queryResolvers_
    /\ StartsWith(queryStr, <<"{", " ">> \o w_user \o <<":", " ">> \o w_user
                            \o <<"(">> \o w_id \o <<":", " ", "1", ")", " ">>)
    /\ response.f[w_data] = Null

(***************************************************************************)
(* C6: in every envelope, data is null if and only if parsing failed; for  *)
(* a parsed query data is an object, also when every field is unknown or   *)
(* every resolver fails.                                                   *)
(***************************************************************************)
C6_DataNullIffParseFailed ==
    pc = "returned" =>
       /\ response.f[w_data] = Null <=> ParseFailed
       /\ ~ParseFailed => is_object(response.f[w_data])

\* a parsed query of an unknown field and a field whose resolver fails
C6_Witness ==
    /\ pc = "returned" /\ ~ParseFailed
    /\ Len(Selections) = 2
    /\ \E i, j \in 1..2 : ~Known(i) /\ Failed(j)
    /\ is_object(response.f[w_data])

(***************************************************************************)
(* C7: the envelope has the key errors if and only if an error was         *)
(* recorded during the call (a parse failure, an unknown field or a failed *)
(* resolver); its value is then a non-empty array.                         *)
(***************************************************************************)
C7_ErrorsKeyIffErrorRecorded ==
    pc = "returned" =>
       /\ contains(response, w_errors)
            <=> \/ ParseFailed
                \/ \E i \in 1..Len(Selections) : ~Known(i) \/ Failed(i)
       /\ contains(response, w_errors)
            => is_array(response.f[w_errors]) /\ response.f[w_errors].a # <<>>

\* two fields, both resolved, and an envelope with no errors key
C7_Witness ==
    /\ pc = "returned" /\ ~ParseFailed
    /\ Len(Selections) = 2
    /\ Succeeded(1) /\ Succeeded(2)
    /\ ~contains(response, w_errors)

(***************************************************************************)
(* C8: for a query of a single top-level field with no nested selections   *)
(* whose resolver is registered and succeeds, data[field] is the           *)
(* resolver's raw return value, whatever its kind.                         *)
(***************************************************************************)
C8_LeafFieldIsRawResult ==
    (/\ pc = "returned" /\ ~ParseFailed
     /\ Len(Selections) = 1
     /\ Selections[1].selections = <<>>
     /\ Succeeded(1))
    => /\ contains(response.f[w_data], outputKey(Selections[1]))
       /\ response.f[w_data].f[outputKey(Selections[1])] = ResultOf(1).val

\* the single field's resolver returned an object, which data holds whole
C8_Witness ==
    /\ pc = "returned" /\ ~ParseFailed
    /\ Len(Selections) = 1
    /\ Selections[1].selections = <<>>
    /\ Succeeded(1)
    /\ is_object(ResultOf(1).val)
    /\ w_email \in DOMAIN response.f[w_data].f[outputKey(Selections[1])].f

(***************************************************************************)
(* C9: a query that selects the same registered field twice under two      *)
(* distinct aliases invokes the resolver once per selection, with that     *)
(* selection's own arguments, and each result is in data under its own     *)
(* alias, whatever happens to the other selection.                         *)
(***************************************************************************)
C9_TwoAliasesIndependent ==
    (/\ pc = "returned" /\ ~ParseFailed
     /\ Len(Selections) = 2
     /\ Selections[1].name = Selections[2].name
     /\ Selections[1].alias # <<>> /\ Selections[2].alias # <<>>
     /\ Selections[1].alias # Selections[2].alias
     /\ Known(1))
    => /\ Len(calls) = 2
       /\ \A i \in 1..2 :
             /\ calls[i].index = i
             /\ \A key \in DOMAIN Selections[i].arguments.f :
                   contains(calls[i].args, key)
                   /\ calls[i].args.f[key] = Selections[i].arguments.f[key]
             /\ calls[i].result.ok
                  => /\ contains(response.f[w_data], Selections[i].alias)
                     /\ response.f[w_data].f[Selections[i].alias]
                           = projected(Selections[i], calls[i].result.val)

(***************************************************************************)
(* C10: at every level of projection, the projected object's keys are      *)
(* exactly the output keys of the selections whose name is a key of the    *)
(* source: no other key appears, and a requested name that the source      *)
(* lacks is left out, not set to null.                                     *)
(***************************************************************************)
RequestedKeys(source, sels) ==
    {outputKey(sels[i]) : i \in {j \in 1..Len(sels) : contains(source, sels[j].name)}}

\* the selection that decides the entry of its output key: the last such
Decides(source, sels, i) ==
    /\ contains(source, sels[i].name)
    /\ \A j \in (i + 1)..Len(sels) :
          contains(source, sels[j].name) => outputKey(sels[j]) # outputKey(sels[i])

RECURSIVE KeysExact(_, _, _)
KeysExact(source, sels, target) ==
    /\ is_object(target)
    /\ DOMAIN target.f = RequestedKeys(source, sels)
    /\ \A i \in 1..Len(sels) :
          Decides(source, sels, i) /\ sels[i].selections # <<>> =>
             LET item == source.f[sels[i].name]
                 out == target.f[outputKey(sels[i])]
             IN  /\ is_object(item) => KeysExact(item, sels[i].selections, out)
                 /\ is_array(item) =>
                       /\ is_array(out)
                       /\ Len(out.a) = Len(item.a)
                       /\ \A e \in 1..Len(item.a) :
                             is_object(item.a[e]) =>
                                KeysExact(item.a[e], sels[i].selections, out.a[e])

C10_ProjectedKeysExact ==
    (/\ AfterStep
     /\ Succeeded(index - 1)
     /\ LastField.selections # <<>>
     /\ is_object(ResultOf(index - 1).val))
    => /\ contains(data, outputKey(LastField))
       /\ KeysExact(ResultOf(index - 1).val, LastField.selections,
                    data.f[outputKey(LastField)])

\* a projection two levels deep that renames a key and leaves out the
\* requested names the source lacks, in the object and in its members
C10_Witness ==
    /\ AfterStep
    /\ Succeeded(index - 1)
    /\ LastField.alias = <<"b">>
    /\ contains(data, <<"b">>)
    /\ DOMAIN data.f[<<"b">>].f = {<<"n">>, w_address, w_tags}
    /\ DOMAIN data.f[<<"b">>].f[w_address].f = {w_city}
    /\ w_email \in DOMAIN ResultOf(index - 1).val.f

C12_LiteralArgumentsWin ==
    InCall =>
       \A k \in 1..Len(calls) :
          LET args == calls[k].args
              literal == Selections[calls[k].index].arguments
          IN  /\ is_object(args)
              /\ DOMAIN args.f = DOMAIN literal.f \cup DOMAIN variables.f
              /\ \A key \in DOMAIN args.f :
                    args.f[key] = IF key \in DOMAIN literal.f
                                  THEN literal.f[key]
                                  ELSE variables.f[key]

\* a resolver was called with a literal null that shadows a variable of the
\* same name, and with a variable the literal arguments do not name
C12_Witness ==
    /\ AfterStep
    /\ Known(index - 1)
    /\ LastField.name = w_setName
    /\ LastField.arguments.f[w_v] = Null
    /\ contains(variables, w_v) /\ variables.f[w_v] # Null
    /\ contains(variables, w_id) /\ ~contains(LastField.arguments, w_id)
    /\ \E k \in CallsOf(index - 1) :
          /\ calls[k].args.f[w_v] = Null
          /\ calls[k].args.f[w_id] = variables.f[w_id]
          /\ calls[k].args.f[w_name] = Str(<<"B", "o", "b">>)

(***************************************************************************)
(* C13: execute processes the top-level selections strictly in source      *)
(* order.  The parsed selections are the fields of the query text in the   *)
(* order in which the text has them; the resolver invocations happen in    *)
(* that order, one per loop step; and the entries of errors stand in the   *)
(* order of the fields that produced them.                                 *)
(***************************************************************************)
\* the text between the braces of a complete document
DocumentBody(text) ==
    LET pre == CHOOSE pr \in Prefixes : StartsWith(text, pr \o <<"{", " ">>)
    IN  SubSeq(text, Len(pre) + 3, Len(text) - 1)

\* the field texts a document body was written with, first to last
RECURSIVE FieldTextsOf(_)
FieldTextsOf(body) ==
    IF body = <<>> THEN <<>>
    ELSE LET f == CHOOSE g \in FieldTexts : StartsWith(body, g \o Sp)
         IN  <<f>> \o FieldTextsOf(SubSeq(body, Len(f) + 2, Len(body)))

\* the selection that a field text parses to when it stands alone
SelectionOf(f) == parseOf[<<"{", " ">> \o f \o <<" ", "}">>].val.selections[1]

\* the fields processed so far that are unknown or whose resolver failed
Erroring == SelectSeq([i \in 1..(index - 1) |-> i],
                      LAMBDA i : ~Known(i) \/ Failed(i))

C13_SourceOrder ==
    InCall =>
       /\ LET written == FieldTextsOf(DocumentBody(queryStr))
          IN  Selections = [n \in 1..Len(written) |-> SelectionOf(written[n])]
       /\ \A k \in 1..Len(calls) :
             /\ calls[k].index < index
             /\ calls[k].name = Selections[calls[k].index].name
             /\ \A l \in 1..Len(calls) :
                   k < l => calls[k].index < calls[l].index
       /\ Len(errors.a) = Len(Erroring)
       /\ \A n \in 1..Len(Erroring) :
             LET field == Selections[Erroring[n]]
             IN  /\ errors.a[n].f[w_path] = Arr(<<Str(field.name)>>)
                 /\ errors.a[n].f[w_message] =
                       IF Known(Erroring[n])
                       THEN Str(ResultOf(Erroring[n]).what)
                       ELSE unknownFieldError(field, parsed.operationType).f[w_message]

\* two different fields in a row have produced errors of different kinds, one
\* of them by its resolver's failure
C13_Witness ==
    /\ pc = "returned" /\ InCall
    /\ Len(Selections) = 2
    /\ Selections[1].name # Selections[2].name
    /\ (\/ ~Known(1) /\ Failed(2)
        \/ Failed(1) /\ ~Known(2))
    /\ Len(errors.a) = 2
    /\ errors.a[1] # errors.a[2]

(***************************************************************************)
(* C14: with resolvers that are deterministic and free of side effects,    *)
(* executing the same query text with the same variables and context once  *)
(* more on the same Schema returns an envelope identical to the one the    *)
(* call before returned: whenever a call that follows another returns,     *)
(* what it returns is what the call before returned.                       *)
(***************************************************************************)
C14_SecondCallSameEnvelope ==
    [][response # Null /\ pc' = "returned" => response' = response]_vars

\* a second call of a query with a resolved field and a failed one is about to
\* return, the envelope of the first call at hand
C14_Witness ==
    /\ pc = "fields"
    /\ response # Null
    /\ index > Len(Selections)
    /\ data # EmptyObject
    /\ errors # EmptyArray
    /\ \E i \in 1..Len(Selections) : Succeeded(i)
    /\ contains(response, w_errors)

(***************************************************************************)
(* C15: for every interleaving of the steps of concurrent execute() calls  *)
(* on one Schema whose registration has completed, every call returns the  *)
(* envelope that the same call returns when it runs alone, and while it    *)
(* runs its errors hold only entries for its own fields.                   *)
(***************************************************************************)
C15_ConcurrentCallsIsolated ==
    \A t \in Threads :
       /\ threads[t].pc = "returned" =>
             threads[t].response = executeAlone(threads[t].queryStr,
                                                threads[t].variables,
                                                threads[t].context)
       /\ threads[t].pc = "fields" =>
             /\ Len(threads[t].errors.a) < threads[t].index
             /\ \A n \in 1..Len(threads[t].errors.a) :
                   \E i \in 1..(threads[t].index - 1) :
                      threads[t].errors.a[n].f[w_path] =
                         Arr(<<Str(threads[t].parsed.selections[i].name)>>)

\* two calls of different queries have both returned, each with errors, after
\* their steps were interleaved (each had begun before the other returned is
\* one of the interleavings that lead here)
C15_Witness ==
    \E t, u \in Threads :
       /\ t # u
       /\ threads[t].pc = "returned" /\ threads[u].pc = "returned"
       /\ threads[t].queryStr # threads[u].queryStr
       /\ contains(threads[t].response, w_errors)
       /\ contains(threads[u].response, w_errors)
       /\ threads[t].response # threads[u].response
       /\ threads[t].response.f[w_data] # Null
       /\ threads[u].response.f[w_data] # Null

(***************************************************************************)
(* C16: the operation keyword alone selects the registry.  A query text    *)
(* that begins with `{` or with the keyword `query` is resolved only       *)
(* against the query registry, one that begins with `mutation` only        *)
(* against the mutation registry: a field is resolved by the resolver that *)
(* the selected registry holds under its name, and a field whose name the  *)
(* selected registry lacks is reported as unknown, its resolver in the     *)
(* other registry not invoked.                                             *)
(***************************************************************************)
\* the registry that the first word of the query text stands for
RegistryOfText ==
    IF StartsWith(queryStr, <<"m","u","t","a","t","i","o","n">>)
    THEN mutationResolvers_ ELSE queryResolvers_

TypeOfText ==
    IF StartsWith(queryStr, <<"m","u","t","a","t","i","o","n">>)
    THEN "mutation" ELSE "query"

C16_KeywordSelectsRegistry ==
    InCall =>
       /\ \/ StartsWith(queryStr, <<"{">>)
          \/ StartsWith(queryStr, <<"q","u","e","r","y">>)
          \/ StartsWith(queryStr, <<"m","u","t","a","t","i","o","n">>)
       /\ \A i \in 1..(index - 1) :
             LET field == Selections[i]
             IN  IF field.name \in DOMAIN RegistryOfText
                 THEN \A k \in CallsOf(i) :
                         calls[k].result =
                            Invoke(RegistryOfText[field.name], calls[k].args,
                                   calls[k].context)
                 ELSE /\ CallsOf(i) = {}
                      /\ \E n \in 1..Len(errors.a) :
                            errors.a[n] = unknownFieldError(field, TypeOfText)
       /\ \A k \in 1..Len(calls) : calls[k].name \in DOMAIN RegistryOfText

\* a mutation document named a field that only the query registry holds, next
\* to one of the mutation registry: the first was reported, the second resolved
C16_Witness ==
    /\ pc = "returned" /\ InCall
    /\ StartsWith(queryStr, <<"m","u","t","a","t","i","o","n">>)
    /\ \E i, j \in 1..Len(Selections) :
          /\ Selections[i].name \in DOMAIN queryResolvers_
          /\ Selections[i].name \notin DOMAIN mutationResolvers_
          /\ CallsOf(i) = {}
          /\ Selections[j].name \in DOMAIN mutationResolvers_
          /\ Succeeded(j)
    /\ Len(errors.a) = 1

(***************************************************************************)
(* C17: when two top-level selections of one query have the same output    *)
(* key (the alias if given, else the name) and both name registered        *)
(* fields, both resolvers are invoked, each failure among them adds an     *)
(* error, and after execute data[key] holds the outcome of the selection   *)
(* later in source order: its projected result, or null if it failed.      *)
(***************************************************************************)
C17_LastWriteWins ==
    pc = "returned" /\ InCall =>
       \A i, j \in 1..Len(Selections) :
          /\ i < j
          /\ outputKey(Selections[i]) = outputKey(Selections[j])
          /\ Known(i) /\ Known(j)
          /\ \A l \in (j + 1)..Len(Selections) :
                outputKey(Selections[l]) # outputKey(Selections[j])
          => /\ Cardinality(CallsOf(i)) = 1
             /\ Cardinality(CallsOf(j)) = 1
             /\ Len(errors.a) >= Cardinality({l \in {i, j} : Failed(l)})
             /\ contains(data, outputKey(Selections[j]))
             /\ data.f[outputKey(Selections[j])] =
                   IF Succeeded(j)
                   THEN projected(Selections[j], ResultOf(j).val)
                   ELSE Null

(***************************************************************************)
(* C18: for a successfully parsed query, errors holds exactly one entry    *)
(* for every top-level selection that is unknown or whose resolver failed, *)
(* and no other entry: a resolved field adds none, also when its nested    *)
(* selection names a key its result lacks; the envelope carries exactly    *)
(* these entries.                                                          *)
(***************************************************************************)
C18_OneErrorPerFailedField ==
    InCall =>
       /\ Len(errors.a) =
             Cardinality({i \in 1..(index - 1) : ~Known(i) \/ Failed(i)})
       /\ \A i \in 1..(index - 1) :
             (~Known(i) \/ Failed(i)) =>
                \E n \in 1..Len(errors.a) :
                   errors.a[n].f[w_path] = Arr(<<Str(Selections[i].name)>>)
       /\ (\A i \in 1..(index - 1) : Succeeded(i)) => errors = EmptyArray
       /\ pc = "returned" =>
             IF errors = EmptyArray THEN ~contains(response, w_errors)
             ELSE response.f[w_errors] = errors

\* a field was resolved though its nested selection names a key the result
\* lacks, the field after it failed, and errors has the one entry of that one
C18_Witness ==
    /\ pc = "returned" /\ InCall
    /\ Len(Selections) = 2
    /\ Succeeded(1)
    /\ \E sel \in {Selections[1].selections[n] :
                      n \in 1..Len(Selections[1].selections)} :
          ~contains(ResultOf(1).val, sel.name)
    /\ Failed(2)
    /\ Len(errors.a) = 1
    /\ Len(response.f[w_errors].a) = 1

(***************************************************************************)
(* C19: in every ParsedQuery that a successful parse returns, the name of  *)
(* every FieldSelection, top-level and nested, is a non-empty identifier   *)
(* [A-Za-z_][A-Za-z0-9_]*, whose first character is no digit; a text with  *)
(* anything else where a field name stands is rejected with a parse error. *)
(***************************************************************************)
\* [A-Za-z_][A-Za-z0-9_]*
IsIdentifier(s) ==
    /\ s # <<>>
    /\ s[1] \in Lower \cup Upper \cup {"_"}
    /\ \A i \in 1..Len(s) : s[i] \in Lower \cup Upper \cup Digits \cup {"_"}

RECURSIVE NamesAreIdentifiers(_)
NamesAreIdentifiers(selections) ==
    \A i \in 1..Len(selections) :
       /\ IsIdentifier(selections[i].name)
       /\ NamesAreIdentifiers(selections[i].selections)

C19_SelectionNamesAreIdentifiers ==
    parser.state = "done" =>
       /\ parser.result.ok => NamesAreIdentifiers(parser.result.val.selections)
       /\ \A n \in NameTokens :
             /\ parser.source_ \in {TopLevelName(n), NestedName(n), AliasedName(n)}
             /\ ~IsIdentifier(n)
             => ~parser.result.ok

(***************************************************************************)
(* C20: where an argument value stands, the bare words true, false and     *)
(* null parse to Bool true, Bool false and Null, and every other bare word *)
(* W, whatever its first letter, parses to the String equal to W; the same *)
(* inside an array value and an object value.                              *)
(***************************************************************************)
ValueOfWord(w) ==
    IF w = <<"t","r","u","e">> THEN Bool(TRUE)
    ELSE IF w = <<"f","a","l","s","e">> THEN Bool(FALSE)
    ELSE IF w = <<"n","u","l","l">> THEN Null
    ELSE Str(w)

C20_BareWordValues ==
    parser.state = "done" =>
       \A w \in WordTokens :
          LET v == parser.result.val.selections[1].arguments.f[w_v]
          IN  /\ parser.source_ = WordArgument(w) =>
                    parser.result.ok /\ v = ValueOfWord(w)
              /\ parser.source_ = WordInArray(w) =>
                    parser.result.ok /\ v = Arr(<<ValueOfWord(w)>>)
              /\ parser.source_ = WordInObject(w) =>
                    parser.result.ok /\ v = Obj(<<"k">> :> ValueOfWord(w))

(***************************************************************************)
(* C21: a ParsedQuery that parse returns has at least one top-level        *)
(* selection; a document whose top-level selection set is empty yields no  *)
(* ParsedQuery of zero selections.                                         *)
(***************************************************************************)
C21_SelectionsNonEmpty ==
    (parser.state = "done" /\ parser.result.ok)
    => parser.result.val.selections # <<>>

(***************************************************************************)
(* C22: parse throws when a delimiter it expects is missing, when the      *)
(* operation keyword is neither query nor mutation, and when an identifier *)
(* it expects is absent, and what it throws names the offset of the         *)
(* offending character, which is the length of the text at its end.        *)
(***************************************************************************)
\* the offset of the character that makes each malformed text fail
Offending ==
    [text \in MalformedTexts |->
        CASE text = Malformed.unclosed -> Len(Malformed.unclosed)
          [] text = Malformed.noColon -> 10
          [] text = Malformed.noParen -> 13
          [] text = Malformed.openString -> Len(Malformed.openString)
          [] text = Malformed.noBrace -> 11
          [] text = Malformed.unbalanced -> Len(Malformed.unbalanced)
          [] text = Malformed.keyword -> 0
          [] text = Malformed.subscription -> 0
          [] text = Malformed.badName -> 2
          [] text = Malformed.empty -> 0]

Mentions(what, offset) == \E i \in 1..Len(what) : what[i] = ToString(offset)

C22_DiagnosticNamesOffset ==
    (parser.state = "done" /\ parser.source_ \in MalformedTexts)
    => /\ ~parser.result.ok
       /\ Mentions(parser.result.what, Offending[parser.source_])

(***************************************************************************)
(* C23: a number literal in argument position is a Float when it has a     *)
(* '.', and otherwise an Int whose value is the integer the literal        *)
(* denotes; an exponent is never read as part of the number.               *)
(***************************************************************************)
\* the value of the argument v of the only selection
ArgumentV(result) == result.val.selections[1].arguments.f[w_v]

\* the integer each literal within int denotes
Denoted ==
    [n \in NumberLiterals.integer |->
        CASE n = <<"4","2">> -> 42
          [] n = <<"-","7">> -> -7
          [] n = <<"0">> -> 0
          [] n = <<"0","0","7">> -> 7
          [] n = <<"-","0">> -> 0
          [] n = <<"2","1","4","7","4","8","3","6","4","7">> -> INT_MAX
          [] n = <<"-","2","1","4","7","4","8","3","6","4","8">> -> (-INT_MAX) - 1]

\* the mantissa and the number of decimals each literal with a '.' denotes
DenotedDecimal ==
    [n \in NumberLiterals.decimal |->
        CASE n = <<"3",".","1","4">> -> Float(314, 2)
          [] n = <<"-","0",".","5">> -> Float(-5, 1)
          [] n = <<"1",".","5","0">> -> Float(15, 1)
          [] n = <<"0",".","0">> -> Float(0, 0)
          [] n = <<"1","0",".","2","5">> -> Float(1025, 2)]

\* the number before the exponent and the exponent, read as two values
Mantissa ==
    [n \in NumberLiterals.exponent |->
        CASE n = <<"1","e","5">> -> <<Int32(1), Str(<<"e","5">>)>>
          [] n = <<"2","E","3">> -> <<Int32(2), Str(<<"E","3">>)>>
          [] n = <<"1",".","5","e","2">> -> <<Float(15, 1), Str(<<"e","2">>)>>]

C23_NumberLiterals ==
    parser.state = "done" =>
       /\ \A n \in NumberLiterals.integer :
             /\ parser.source_ = WordArgument(n)
                  => /\ parser.result.ok
                     /\ ArgumentV(parser.result) = Int32(Denoted[n])
             /\ parser.source_ = WordInArray(n)
                  => /\ parser.result.ok
                     /\ ArgumentV(parser.result) = Arr(<<Int32(Denoted[n])>>)
       /\ \A n \in NumberLiterals.wide :
             parser.source_ \in {WordArgument(n), WordInArray(n)}
                => parser.result.ok
       /\ \A n \in NumberLiterals.decimal :
             /\ parser.source_ = WordArgument(n)
                  => /\ parser.result.ok
                     /\ ArgumentV(parser.result) = DenotedDecimal[n]
             /\ parser.source_ = WordInArray(n)
                  => /\ parser.result.ok
                     /\ ArgumentV(parser.result) = Arr(<<DenotedDecimal[n]>>)
       /\ \A n \in NumberLiterals.exponent :
             /\ parser.source_ = WordArgument(n) => ~parser.result.ok
             /\ parser.source_ = WordInArray(n)
                  => /\ parser.result.ok
                     /\ ArgumentV(parser.result) = Arr(Mantissa[n])

(***************************************************************************)
(* C24: whitespace and commas between the tokens of a query are            *)
(* insignificant: whatever stands between two tokens, before the first or  *)
(* after the last (a space, a tab, a newline, a carriage return, a comma,  *)
(* several of them, or nothing where the tokens stay apart), parse         *)
(* succeeds or fails alike and returns the same ParsedQuery.               *)
(***************************************************************************)
SameOutcome(r1, r2) ==
    /\ r1.ok = r2.ok
    /\ r1.ok => r1.val = r2.val

C24_SeparatorsInsignificant ==
    parser.state = "done" =>
       \A tokens \in TokenDocuments :
          parser.source_ \in Spacings[tokens]
             => SameOutcome(parser.result, parseOfText[Spacing(tokens, {}, <<>>)])

\* the operation with nothing between its tokens but what keeps words apart
C24_Witness ==
    /\ parser.state = "done"
    /\ parser.source_ = Spacing(TokenDocument.operation, 1..(Len(TokenDocument.operation) + 1), <<>>)
    /\ parser.source_ # Spacing(TokenDocument.operation, {}, <<>>)
    /\ parser.result.ok
    /\ Len(parser.result.val.selections) = 2

(***************************************************************************)
(* C27: parse terminates on every text: expect leaves the cursor past the  *)
(* delimiter it accepts, and from every cursor an iteration of the         *)
(* selection-set, argument, object-value, array-value, string and          *)
(* balanced-paren loops either throws or leaves the cursor further on, so  *)
(* the cursor, which never passes the end of the text, bounds the number   *)
(* of iterations and of nested calls.                                      *)
(***************************************************************************)
\* one iteration of the loop of parseArguments and parseObjectValue
memberAt(src, p) ==
    Then(parseIdentifier(src, p), LAMBDA key :
    Then(expect(src, key.pos, ":"), LAMBDA colon :
         parseValue(src, colon.pos)))

\* one iteration of the loop of parseString: the cursor it leaves
stringStep(src, p) ==
    IF peek(src, p) = "\\" THEN advance(src, advance(src, p)) ELSE advance(src, p)

Advances(r, p, src) == r.ok => (p < r.pos /\ r.pos <= Len(src))

LoopsAdvance(src) ==
    \A k \in 0..Len(src) :
       LET p == Len(src) - k
       IN  /\ \A c \in {"{", "}", "(", ")", "[", "]", ":", "\""} :
                 Advances(expect(src, p, c), p, src)
           /\ (peek(src, p) # "\"" /\ peek(src, p) # NUL)
                 => (p < stringStep(src, p) /\ stringStep(src, p) <= Len(src))
           /\ p < Len(src)
                 => /\ p < skipBalancedLoop(src, p, 1, "(", ")")
                    /\ skipBalancedLoop(src, p, 1, "(", ")") <= Len(src)
           /\ peek(src, p) # "]" => Advances(parseValue(src, p), p, src)
           /\ \A close \in {")", "}"} :
                 peek(src, p) # close => Advances(memberAt(src, p), p, src)
           /\ (peek(src, p) # "}" /\ peek(src, p) # NUL)
                 => Advances(parseField(src, p), p, src)

C27_ParseTerminates ==
    parser.state = "done"
       => /\ LoopsAdvance(parser.source_)
          /\ parser.result.ok => parser.result.pos <= Len(parser.source_)

\* a text cut short inside a string inside an array inside an argument list
C27_Witness ==
    /\ parser.state = "done"
    /\ parser.source_ \in Truncations(Spacing(TokenDocument.operation, {}, <<>>))
    /\ Len(parser.source_) = 45
    /\ ~parser.result.ok
    /\ Mentions(parser.result.what, 45)

(***************************************************************************)
(* C25: where a nested selection with child selections names a key whose   *)
(* source value is an array, the projected value is an array of the same   *)
(* length and order: each element that is an object is its projection      *)
(* under the child selections, each other element is the element itself.   *)
(***************************************************************************)
\* target is the projection of the object source under sels
RECURSIVE IsProjection(_, _, _)
IsProjection(source, sels, target) ==
    /\ is_object(target)
    /\ DOMAIN target.f = RequestedKeys(source, sels)
    /\ \A i \in 1..Len(sels) :
          Decides(source, sels, i) =>
             LET item == source.f[sels[i].name]
                 out == target.f[outputKey(sels[i])]
                 children == sels[i].selections
             IN  IF children = <<>> THEN out = item
                 ELSE IF is_object(item) THEN IsProjection(item, children, out)
                 ELSE IF is_array(item)
                 THEN /\ is_array(out)
                      /\ Len(out.a) = Len(item.a)
                      /\ \A e \in 1..Len(item.a) :
                            IF is_object(item.a[e])
                            THEN IsProjection(item.a[e], children, out.a[e])
                            ELSE out.a[e] = item.a[e]
                 ELSE out = item

C25_ArraysProjectedElementwise ==
    (/\ AfterStep
     /\ Succeeded(index - 1)
     /\ LastField.selections # <<>>
     /\ is_object(ResultOf(index - 1).val))
    => /\ contains(data, outputKey(LastField))
       /\ IsProjection(ResultOf(index - 1).val, LastField.selections,
                       data.f[outputKey(LastField)])

\* an array of six elements: two objects, a number, a string, an array, null
C25_Witness ==
    /\ AfterStep
    /\ queryStr = CaseDocument.items
    /\ Succeeded(1)
    /\ Len(ResultOf(1).val.f[<<"i","t","e","m","s">>].a) = 6
    /\ data.f[w_echo].f[<<"i","t","e","m","s">>]
          = Arr(<< Obj(<<"a">> :> Int32(1)), Int32(7), Str(<<"s">>),
                   Arr(<<Obj(<<"a">> :> Int32(1))>>), Null, EmptyObject >>)

(***************************************************************************)
(* C26: when a top-level field has nested selections and its resolver      *)
(* returns a value that is not an object (a scalar, null, an array, even   *)
(* an array of objects), data holds that value as it is under the field's  *)
(* alias or name; a top-level object is projected.                         *)
(***************************************************************************)
C26_OnlyObjectsProjected ==
    (/\ AfterStep
     /\ Succeeded(index - 1)
     /\ LastField.selections # <<>>)
    => /\ contains(data, outputKey(LastField))
       /\ IF is_object(ResultOf(index - 1).val)
          THEN /\ is_object(data.f[outputKey(LastField)])
               /\ DOMAIN data.f[outputKey(LastField)].f
                     \subseteq {outputKey(LastField.selections[i]) :
                                   i \in 1..Len(LastField.selections)}
          ELSE data.f[outputKey(LastField)] = ResultOf(index - 1).val

\* an array with an object that has more keys than the selection set names
C26_Witness ==
    /\ AfterStep
    /\ queryStr = CaseDocument.echoArray
    /\ Succeeded(1)
    /\ LastField.selections # <<>>
    /\ data.f[w_echo]
          = Arr(<< Int32(1),
                   Obj(w_name :> Str(<<"w">>) @@ w_id :> Int32(2)) >>)

(***************************************************************************)
(* C28: a '$'-prefixed variable reference written as an argument value     *)
(* makes the query fail to parse: no resolver runs and data is null,       *)
(* whatever the variables; a variable reaches a resolver only by the merge *)
(* of the variables into the arguments under its own name.                 *)
(***************************************************************************)
VariableReferences == {CaseDocument.variable, CaseDocument.variableDefined, CaseDocument.variableInArray}

C29_TextAfterDocumentIgnored ==
    pc = "returned" =>
       \A d \in WholeDocuments : \A s \in Suffixes :
          queryStr = d \o s
             => /\ parseOf[d].ok
                /\ parseOf[queryStr].ok
                /\ parseOf[queryStr].val = parseOf[d].val
                /\ parseOf[queryStr].pos = parseOf[d].pos
                /\ response = executeAlone(d, variables, context)

\* a document followed by an opening brace that nothing closes
C29_Witness ==
    /\ pc = "returned"
    /\ queryStr = CaseDocument.tags \o <<"\n", "q","u","e","r","y", " ", "{">>
    /\ Len(calls) = 1
    /\ calls[1].result.ok
    /\ contains(response.f[w_data], w_user)
    /\ ~contains(response, w_errors)

(***************************************************************************)
(* C30: the arguments written on nested selections are parsed and then     *)
(* never used: queries that differ only in them make the same resolver     *)
(* invocations and return the same envelope, and no resolver receives an   *)
(* argument of a nested selection.                                         *)
(***************************************************************************)
NestedVariants == {CaseDocument.nestedPlain, CaseDocument.nestedArgs, CaseDocument.nestedOther}

C30_NestedArgumentsUnused ==
    (pc # "setup" /\ queryStr \in NestedVariants)
    => /\ \A k \in 1..Len(calls) :
             /\ calls[k].name = w_user
             /\ calls[k].context = context
             /\ DOMAIN calls[k].args.f = {w_id} \cup DOMAIN variables.f
             /\ calls[k].args.f[w_id] = Int32(2)
             /\ \A key \in DOMAIN variables.f \ {w_id} :
                   calls[k].args.f[key] = variables.f[key]
       /\ Len(calls) <= 1
       /\ pc = "returned"
             => response = executeAlone(CaseDocument.nestedPlain, variables, context)

\* the nested arguments are in the ParsedQuery and not in the invocation
C30_Witness ==
    /\ pc = "returned"
    /\ queryStr = CaseDocument.nestedArgs
    /\ parsed.selections[1].selections[1].arguments = Obj(<<"x">> :> Int32(1))
    /\ parsed.selections[1].selections[2].arguments.f[w_id] = Int32(9)
    /\ Len(calls) = 1
    /\ calls[1].result.ok
    /\ contains(response.f[w_data].f[<<"b">>], w_address)
    /\ contains(variables, w_v)

=============================================================================
